---- MODULE Spec2Model ----
(***************************************************************************)
(* A model of the DocsEtc-Ai hybrid classification engine:                 *)
(*   src/agents/classifier_agent.py  ClassifierAgent                       *)
(*   src/agents/email_agent.py       EmailAgent                            *)
(*   src/utils/llm_utils.py          call_ollama_llm                       *)
(* Texts are TLA+ strings, read character by character with SubSeq; the    *)
(* regular expressions of the source are syntax trees run by a             *)
(* backtracking matcher that follows Python's re priorities (leftmost,     *)
(* greedy, alternatives in order).  Python values are tagged records.      *)
(* Confidences are integers counting hundredths (0.9 is 90).               *)
(***************************************************************************)
EXTENDS Integers, Sequences, FiniteSets, TLC

\* ------------------------------------------------------------------
\* Python values.  Every value has the same three fields so that values
\* of different Python types can be compared: t is the type, s the text
\* of a str, n the number of an int/float (hundredths) or bool (0/1).
\* ------------------------------------------------------------------
PyNone == [t |-> "none", s |-> "", n |-> 0]
PyStr(x) == [t |-> "str", s |-> x, n |-> 0]
PyNum(h) == [t |-> "num", s |-> "", n |-> h]
PyBool(b) == [t |-> "bool", s |-> "", n |-> IF b THEN 1 ELSE 0]
PyList == [t |-> "list", s |-> "", n |-> 0]
PyTuple == [t |-> "tuple", s |-> "", n |-> 0]
PyBytes(x) == [t |-> "bytes", s |-> x, n |-> 0]

\* Python truthiness: bool(v).
truthy(v) ==
    CASE v.t = "none" -> FALSE
      [] v.t = "str" -> v.s # ""
      [] v.t = "bytes" -> v.s # ""
      [] v.t = "num" -> v.n # 0
      [] v.t = "bool" -> v.n # 0
      [] v.t = "list" -> TRUE
      [] OTHER -> TRUE

\* ------------------------------------------------------------------
\* Characters and str methods
\* ------------------------------------------------------------------
WS == {" ", "\t", "\n", "\r"}
DIGIT == {"0", "1", "2", "3", "4", "5", "6", "7", "8", "9"}
LOWER == {"a", "b", "c", "d", "e", "f", "g", "h", "i", "j", "k", "l", "m",
          "n", "o", "p", "q", "r", "s", "t", "u", "v", "w", "x", "y", "z"}
UpperSeq == <<"A", "B", "C", "D", "E", "F", "G", "H", "I", "J", "K", "L", "M",
              "N", "O", "P", "Q", "R", "S", "T", "U", "V", "W", "X", "Y", "Z">>
LowerSeq == <<"a", "b", "c", "d", "e", "f", "g", "h", "i", "j", "k", "l", "m",
              "n", "o", "p", "q", "r", "s", "t", "u", "v", "w", "x", "y", "z">>
UPPER == {UpperSeq[i] : i \in 1..Len(UpperSeq)}
WORD == LOWER \cup UPPER \cup DIGIT \cup {"_"}

charAt(t, i) == SubSeq(t, i, i)

lowerChar(c) ==
    IF c \in UPPER
    THEN LowerSeq[CHOOSE i \in 1..Len(UpperSeq) : UpperSeq[i] = c]
    ELSE c

\* str.lower(), by halves: the recursion is as deep as log2 of the length
RECURSIVE str_lower(_)
str_lower(t) ==
    IF Len(t) = 0 THEN ""
    ELSE IF Len(t) = 1 THEN lowerChar(t)
    ELSE str_lower(SubSeq(t, 1, Len(t) \div 2))
         \o str_lower(SubSeq(t, Len(t) \div 2 + 1, Len(t)))

RECURSIVE firstNonWs(_, _)
firstNonWs(t, i) ==
    IF i > Len(t) \/ charAt(t, i) \notin WS THEN i ELSE firstNonWs(t, i + 1)

RECURSIVE lastNonWs(_, _)
lastNonWs(t, i) ==
    IF i < 1 \/ charAt(t, i) \notin WS THEN i ELSE lastNonWs(t, i - 1)

\* a mutation of str_strip: the text is taken as it is
withoutStrip(t) == t

\* str.strip()
str_strip(t) == SubSeq(t, firstNonWs(t, 1), lastNonWs(t, Len(t)))

\* the first of the spans <<start, end>> of P that starts at or after from
firstSpanFrom(P, from) ==
    CHOOSE p \in P : p[1] >= from /\ \A q \in P : q[1] >= from => p[1] <= q[1]

\* where a left-to-right scan goes on after the span p (one further for an empty span)
scanResume(p) == IF p[2] > p[1] THEN p[2] ELSE p[1] + 1

\* how many spans a left-to-right scan takes from P
RECURSIVE scanCount(_, _)
scanCount(P, from) ==
    IF \A p \in P : p[1] < from THEN 0
    ELSE 1 + scanCount(P, scanResume(firstSpanFrom(P, from)))

\* str.count(sub): non-overlapping occurrences, sub non-empty
str_count(t, sub) ==
    scanCount({<<i, i + Len(sub)>> : i \in {j \in 1..(Len(t) - Len(sub) + 1) :
                                              SubSeq(t, j, j + Len(sub) - 1) = sub}}, 1)

\* sub in t
str_contains(t, sub) == \E i \in 1..(Len(t) - Len(sub) + 1) : SubSeq(t, i, i + Len(sub) - 1) = sub

RECURSIVE removeFrom(_, _, _)
removeFrom(t, c, i) ==
    IF i > Len(t) THEN ""
    ELSE (IF charAt(t, i) = c THEN "" ELSE charAt(t, i)) \o removeFrom(t, c, i + 1)

\* str.replace(c, '') for a one-character c
str_remove(t, c) == removeFrom(t, c, 1)

\* ------------------------------------------------------------------
\* Regular expressions (Python's re): syntax trees and a backtracking
\* matcher.  reMatch returns every way the expression matches at
\* position i, in the order Python's matcher tries them; the first one
\* is Python's match.  g is the span of capture group 1.
\* ------------------------------------------------------------------
Lit(x) == [k |-> "lit", s |-> x]
Cls(S) == [k |-> "cls", S |-> S]
NotCls(S) == [k |-> "ncls", S |-> S]
Cat(rs) == [k |-> "cat", rs |-> rs]
Alt(rs) == [k |-> "alt", rs |-> rs]
Rep(r, lo, hi) == [k |-> "rep", r |-> r, lo |-> lo, hi |-> hi]
Grp(r) == [k |-> "grp", r |-> r]
Star(r) == Rep(r, 0, -1)
Plus(r) == Rep(r, 1, -1)
Opt(r) == Rep(r, 0, 1)

isCharClass(re) == re.k \in {"cls", "ncls"}

inClass(re, c) == IF re.k = "cls" THEN c \in re.S ELSE c \notin re.S

\* the length of the longest run of characters of the class from position i
classRun(re, t, i) ==
    CHOOSE n \in 0..(Len(t) - i + 1) :
        /\ \A j \in i..(i + n - 1) : inClass(re, charAt(t, j))
        /\ (i + n > Len(t) \/ ~inClass(re, charAt(t, i + n)))

RECURSIVE reAll(_, _, _, _)
RECURSIVE reCatAll(_, _, _, _, _)
RECURSIVE reCatOver(_, _, _, _, _)
RECURSIVE reAltFrom(_, _, _, _, _)
RECURSIVE reRep(_, _, _, _, _, _)
RECURSIVE reRepOver(_, _, _, _, _, _)

reGroup(ms, i) == [j \in 1..Len(ms) |-> [e |-> ms[j].e, g |-> <<i, ms[j].e>>]]

\* the ends of a repetition of a character class that can take most characters
\* and needs lo: the longest first, then one character less at a time
classEnds(lo, most, i, g) ==
    IF most < lo THEN <<>>
    ELSE [j \in 1..(most - lo + 1) |-> [e |-> i + most - j + 1, g |-> g]]

capRun(run, hi) == IF hi >= 0 /\ hi < run THEN hi ELSE run

\* a greedy repetition {lo,hi} of a character class
reClassRep(r, lo, hi, t, i, g) == classEnds(lo, capRun(classRun(r, t, i), hi), i, g)

\* every way re matches at i, in the order the matcher tries them
reAll(re, t, i, g) ==
    CASE re.k = "lit" ->
           IF i + Len(re.s) - 1 <= Len(t) /\ SubSeq(t, i, i + Len(re.s) - 1) = re.s
           THEN <<[e |-> i + Len(re.s), g |-> g]>> ELSE <<>>
      [] isCharClass(re) ->
           IF i <= Len(t) /\ inClass(re, charAt(t, i))
           THEN <<[e |-> i + 1, g |-> g]>> ELSE <<>>
      [] re.k = "cat" -> reCatAll(re.rs, 1, t, i, g)
      [] re.k = "alt" -> reAltFrom(re.rs, 1, t, i, g)
      [] re.k = "rep" ->
           IF isCharClass(re.r) THEN reClassRep(re.r, re.lo, re.hi, t, i, g)
           ELSE reRep(re.r, re.lo, re.hi, t, i, g)
      [] re.k = "grp" -> reGroup(reAll(re.r, t, i, g), i)

\* rs[k..] in sequence, starting at i
reCatAll(rs, k, t, i, g) ==
    IF k > Len(rs) THEN <<[e |-> i, g |-> g]>>
    ELSE reCatOver(rs, k, t, reAll(rs[k], t, i, g), 1)

\* for each way hs[j] of matching rs[k], the ways of matching the rest
reCatOver(rs, k, t, hs, j) ==
    IF j > Len(hs) THEN <<>>
    ELSE reCatAll(rs, k + 1, t, hs[j].e, hs[j].g) \o reCatOver(rs, k, t, hs, j + 1)

\* alternatives in order
reAltFrom(rs, k, t, i, g) ==
    IF k > Len(rs) THEN <<>>
    ELSE reAll(rs[k], t, i, g) \o reAltFrom(rs, k + 1, t, i, g)

\* greedy repetition {lo,hi} (hi < 0: unbounded): one more round first
reRep(r, lo, hi, t, i, g) ==
    (IF hi = 0 THEN <<>> ELSE reRepOver(r, lo, hi, t, reAll(r, t, i, g), 1))
    \o (IF lo <= 0 THEN <<[e |-> i, g |-> g]>> ELSE <<>>)

reRepOver(r, lo, hi, t, hs, j) ==
    IF j > Len(hs) THEN <<>>
    ELSE reRep(r, IF lo > 0 THEN lo - 1 ELSE 0, IF hi > 0 THEN hi - 1 ELSE hi,
               t, hs[j].e, hs[j].g)
         \o reRepOver(r, lo, hi, t, hs, j + 1)

\* of the pairs <<position, <<m>> or <<>> >> of S, the one of lowest position
\* that holds a match; <<0, <<>>>> when none does
firstHit(S) ==
    IF \A x \in S : Len(x[2]) = 0 THEN <<0, <<>>>>
    ELSE CHOOSE x \in S : Len(x[2]) > 0 /\ \A y \in S : Len(y[2]) > 0 => x[1] <= y[1]

\* The match of the sequence rs[k..] at i: the first way of matching rs[k]
\* after which the rest matches.  <<>> when there is none.
RECURSIVE reCatFirst(_, _, _, _, _)
RECURSIVE reCatTry(_, _, _, _)
reCatFirst(rs, k, t, i, g) ==
    IF k > Len(rs) THEN <<[e |-> i, g |-> g]>>
    ELSE reCatTry(rs, k, t, reAll(rs[k], t, i, g))

reCatTry(rs, k, t, hs) ==
    firstHit({<<j, reCatFirst(rs, k + 1, t, hs[j].e, hs[j].g)>> : j \in 1..Len(hs)})[2]

firstOnly(ms) == IF Len(ms) > 0 THEN <<ms[1]>> ELSE <<>>

\* pattern.match(t, i): the match at position i, as <<m>>, or <<>>
reMatch(re, t, i) ==
    IF re.k = "cat" THEN reCatFirst(re.rs, 1, t, i, <<>>)
    ELSE firstOnly(reAll(re, t, i, <<>>))

\* the match at every position of t
matchesAt(re, t) == {<<i, reMatch(re, t, i)>> : i \in 1..(Len(t) + 1)}

NoMatch == [found |-> FALSE, s |-> 0, e |-> 0, g |-> <<>>]

asMatch(x) ==
    IF Len(x[2]) = 0 THEN NoMatch
    ELSE [found |-> TRUE, s |-> x[1], e |-> x[2][1].e, g |-> x[2][1].g]

\* re.search(pattern, t): the leftmost match
re_search(re, t) == asMatch(firstHit(matchesAt(re, t)))

\* match.group(1)
group1(t, m) == SubSeq(t, m.g[1], m.g[2] - 1)

spansOf(S) == {<<x[1], x[2][1].e>> : x \in {y \in S : Len(y[2]) > 0}}

\* len(re.findall(pattern, t)): non-overlapping matches, left to right
re_findall_count(re, t) == scanCount(spansOf(matchesAt(re, t)), 1)

\* ------------------------------------------------------------------
\* ClassifierAgent: the taxonomy (keywords and patterns), in the order
\* the dict declares it
\* ------------------------------------------------------------------
S0 == Star(Cls(WS))
OptHash == Opt(Lit("#"))
Digits1 == Plus(Cls(DIGIT))

DocTypeOrder ==
    <<"INVOICE", "QUOTE_REQUEST", "CONTRACT", "PURCHASE_ORDER", "RECEIPT", "GENERAL_INQUIRY">>

DocTypes == {DocTypeOrder[i] : i \in 1..Len(DocTypeOrder)}

document_types ==
    [d \in DocTypes |->
       CASE d = "INVOICE" ->
              [keywords |-> <<"invoice", "bill", "payment", "amount", "total", "due",
                              "tax", "subtotal", "billing", "remit">>,
               patterns |-> <<
                 Cat(<<Lit("invoice"), S0, OptHash, S0, Digits1>>),
                 Cat(<<Lit("bill"), S0, OptHash, S0, Digits1>>),
                 Cat(<<Lit("total"), S0, Opt(Lit(":")), S0, Opt(Lit("$")), S0,
                       Plus(Cls(DIGIT \cup {","})), Opt(Lit(".")), Rep(Cls(DIGIT), 0, 2)>>),
                 Cat(<<Lit("amount"), S0, Lit("due")>>) >>]
         [] d = "QUOTE_REQUEST" ->
              [keywords |-> <<"quote", "quotation", "estimate", "proposal", "request",
                              "rfq", "bid">>,
               patterns |-> <<
                 Cat(<<Lit("request"), S0, Lit("for"), S0, Lit("quote")>>),
                 Lit("rfq"),
                 Cat(<<Lit("estimate"), S0, Lit("request")>>) >>]
         [] d = "CONTRACT" ->
              [keywords |-> <<"contract", "agreement", "terms", "conditions", "party",
                              "whereas", "liability", "effective date">>,
               patterns |-> <<
                 Cat(<<Lit("this"), S0, Lit("agreement")>>),
                 Cat(<<Lit("terms"), S0, Lit("and"), S0, Lit("conditions")>>),
                 Cat(<<Lit("contract"), S0, OptHash, S0, Plus(Cls(WORD))>>) >>]
         [] d = "PURCHASE_ORDER" ->
              [keywords |-> <<"purchase", "order", "po", "procurement", "vendor",
                              "supplier", "delivery">>,
               patterns |-> <<
                 Cat(<<Lit("purchase"), S0, Lit("order")>>),
                 Cat(<<Lit("po"), S0, OptHash, S0, Digits1>>),
                 Cat(<<Lit("order"), S0, OptHash, S0, Digits1>>) >>]
         [] d = "RECEIPT" ->
              [keywords |-> <<"receipt", "paid", "transaction", "payment received",
                              "thank you for your purchase", "change due">>,
               patterns |-> <<
                 Cat(<<Lit("receipt"), S0, OptHash, S0, Digits1>>),
                 Cat(<<Lit("transaction"), S0, Lit("id")>>),
                 Cat(<<Lit("payment"), S0, Lit("received")>>),
                 Cat(<<Lit("total"), S0, Lit("paid")>>) >>]
         [] d = "GENERAL_INQUIRY" ->
              [keywords |-> <<"inquiry", "question", "help", "support", "information",
                              "request", "query", "assistance">>,
               patterns |-> <<
                 Cat(<<Lit("can"), S0, Lit("you"), S0, Lit("help")>>),
                 Cat(<<Lit("i"), S0, Lit("have"), S0, Lit("a"), S0, Lit("question")>>),
                 Cat(<<Lit("could"), S0, Lit("you"), S0, Lit("provide")>>),
                 Cat(<<Lit("seeking"), S0, Lit("information")>>) >>]]

\* ------------------------------------------------------------------
\* ClassifierAgent.classify_with_rules
\* ------------------------------------------------------------------
KeywordWeight == 2
PatternWeight == 3
RuleConfidenceCap == 90
DefaultConfidence == 30

RECURSIVE keywordHits(_, _, _)
keywordHits(kws, text_lower, k) ==
    IF k > Len(kws) THEN 0
    ELSE str_count(text_lower, str_lower(kws[k])) * KeywordWeight
         + keywordHits(kws, text_lower, k + 1)

RECURSIVE patternHits(_, _, _)
patternHits(pats, text_lower, k) ==
    IF k > Len(pats) THEN 0
    ELSE re_findall_count(pats[k], text_lower) * PatternWeight
         + patternHits(pats, text_lower, k + 1)

\* the score of one taxonomy entry (the body of the for loop)
score_of(doc_type, text_lower) ==
    keywordHits(document_types[doc_type].keywords, text_lower, 1)
    + patternHits(document_types[doc_type].patterns, text_lower, 1)

\* scores, as the tuple of the scores of DocTypeOrder[k..] (the dict keeps
\* the declaration order)
RECURSIVE scoresFrom(_, _)
scoresFrom(text_lower, k) ==
    IF k > Len(DocTypeOrder) THEN <<>>
    ELSE <<score_of(DocTypeOrder[k], text_lower)>> \o scoresFrom(text_lower, k + 1)

RECURSIVE sumScores(_, _)
sumScores(scores, k) ==
    IF k > Len(scores) THEN 0 ELSE scores[k] + sumScores(scores, k + 1)

\* max(scores.values())
maxScore(scores) ==
    CHOOSE m \in {scores[i] : i \in 1..Len(scores)} : \A i \in 1..Len(scores) : scores[i] <= m

\* a mutation of bestIndex: the last key holding the maximum (max with >=)
lastBestIndex(scores) ==
    LET m == maxScore(scores)
    IN CHOOSE i \in 1..Len(scores) :
          scores[i] = m /\ \A j \in (i + 1)..Len(scores) : scores[j] < m

\* max(scores, key=scores.get): the first key, in dict order, holding the maximum
bestIndex(scores) ==
    LET m == maxScore(scores)
    IN CHOOSE i \in 1..Len(scores) :
          scores[i] = m /\ \A j \in 1..(i - 1) : scores[j] < m

\* a mutation of round2: the quotient is cut after two decimals
truncated2(a, b) == (100 * a) \div b

\* round(a / b, 2) in hundredths, a >= 0, b > 0.  A tie is rounded to the even
\* hundredth, as Python does when the quotient is a binary fraction (x/8); the
\* other ties (7/40 is the first) need a total of 40 or more, and there the
\* float quotient is not the tie itself and Python rounds whichever way it lies.
round2(a, b) ==
    LET q == (100 * a) \div b
        r == (100 * a) % b
    IN IF 2 * r > b THEN q + 1
       ELSE IF 2 * r < b THEN q
       ELSE IF q % 2 = 0 THEN q ELSE q + 1

Max(a, b) == IF a >= b THEN a ELSE b
Min(a, b) == IF a <= b THEN a ELSE b

\* a mutation of ruleConfidence: the cap is forgotten
uncappedConfidence(max_score, total_score) == round2(max_score, Max(total_score, 1))

\* round(min(0.9, max_score / max(total_score, 1)), 2), in hundredths
ruleConfidence(max_score, total_score) ==
    IF 100 * max_score >= RuleConfidenceCap * Max(total_score, 1)
    THEN RuleConfidenceCap
    ELSE round2(max_score, Max(total_score, 1))

RuleReasoning == "Rule-based classification based on keyword and pattern matching"

\* a mutation of rules_outcome: no default for a text that scores nothing
rulesWithoutDefault(scores) ==
    [document_type |-> PyStr(DocTypeOrder[bestIndex(scores)]),
     confidence |-> PyNum(ruleConfidence(scores[bestIndex(scores)], sumScores(scores, 1))),
     reasoning |-> PyStr(RuleReasoning),
     scores |-> scores]

\* the result for a tuple of scores (lines 189-207)
rules_outcome(scores) ==
    IF Len(scores) = 0 \/ maxScore(scores) = 0
    THEN [document_type |-> PyStr("GENERAL_INQUIRY"),
          confidence |-> PyNum(DefaultConfidence),
          reasoning |-> PyStr(RuleReasoning),
          scores |-> scores]
    ELSE LET best == bestIndex(scores)
         IN [document_type |-> PyStr(DocTypeOrder[best]),
             confidence |-> PyNum(ruleConfidence(scores[best], sumScores(scores, 1))),
             reasoning |-> PyStr(RuleReasoning),
             scores |-> scores]

classify_with_rules(text) == rules_outcome(scoresFrom(str_lower(text), 1))

\* ------------------------------------------------------------------
\* ClassifierAgent.extract_key_information
\* ------------------------------------------------------------------
\* a mutation of NumberMarker: "#" is not among the markers
NumberMarkerWithoutHash ==
    Opt(Alt(<<Cat(<<Lit("no"), Opt(Lit("."))>>),
              Cat(<<Lit("num"), Opt(Lit("ber")), S0>>)>>))

NumberMarker ==
    Opt(Alt(<<Lit("#"),
              Cat(<<Lit("no"), Opt(Lit("."))>>),
              Cat(<<Lit("num"), Opt(Lit("ber")), S0>>)>>))
Token == Grp(Plus(Cls(LOWER \cup DIGIT \cup {"-", "/", "_"})))
DateSep == Cls({"/", "-", "."})
D(lo, hi) == Rep(Cls(DIGIT), lo, hi)

InvoiceNumRe ==
    Cat(<<Alt(<<Lit("invoice"), Lit("bill")>>), S0, NumberMarker, Token>>)
AmountRe ==
    Cat(<<Alt(<<Lit("total"), Lit("amount"), Lit("subtotal"), Lit("balance due"),
                Lit("net amount")>>),
          S0, Opt(Lit(":")), S0,
          Opt(Alt(<<Lit("usd"), Lit("eur"), Lit("gbp"), Lit("$"), Lit("€"), Lit("£")>>)),
          S0,
          Grp(Cat(<<Plus(Cls(DIGIT \cup {","})), Opt(Lit(".")), D(0, 2)>>))>>)
DueDateRe ==
    Cat(<<Alt(<<Cat(<<Lit("due"), S0, Lit("date")>>),
                Cat(<<Lit("payment"), S0, Lit("due")>>),
                Lit("due")>>),
          S0, Opt(Lit(":")), S0,
          Grp(Alt(<<Cat(<<D(1, 2), DateSep, D(1, 2), DateSep, D(2, 4)>>),
                    Cat(<<D(4, 4), DateSep, D(1, 2), DateSep, D(1, 2)>>)>>))>>)
PoNumRe ==
    Cat(<<Alt(<<Cat(<<Lit("purchase"), S0, Lit("order")>>), Lit("po")>>),
          S0, NumberMarker, Token>>)
VendorRe ==
    Cat(<<Alt(<<Lit("vendor"), Lit("supplier"), Cat(<<Lit("sold"), S0, Lit("to")>>),
                Cat(<<Lit("ship"), S0, Lit("to")>>)>>),
          S0, Opt(Lit(":")), S0,
          Grp(Plus(NotCls({"\n", "\r"})))>>)

\* m.group(1).strip() if m else None
strippedGroup(t, m) == IF m.found THEN PyStr(str_strip(group1(t, m))) ELSE PyNone

\* m.group(1).replace(',', '') if m else None
amountGroup(t, m) == IF m.found THEN PyStr(str_remove(group1(t, m), ",")) ELSE PyNone

ExtractionRe ==
    [invoice_num_match |-> InvoiceNumRe, amount_match |-> AmountRe,
     due_date_match |-> DueDateRe, po_num_match |-> PoNumRe, vendor_match |-> VendorRe]

\* the re.search calls of extract_key_information on text_lower
extractionSearch(text_lower) ==
    [name \in DOMAIN ExtractionRe |-> re_search(ExtractionRe[name], text_lower)]

\* the dict extract_key_information builds from the matches m
extractedFrom(text_lower, document_type, m) ==
    IF document_type = PyStr("INVOICE")
    THEN [invoice_number |-> strippedGroup(text_lower, m.invoice_num_match),
          amount |-> amountGroup(text_lower, m.amount_match),
          due_date |-> strippedGroup(text_lower, m.due_date_match)]
    ELSE IF document_type = PyStr("PURCHASE_ORDER")
    THEN [po_number |-> strippedGroup(text_lower, m.po_num_match),
          vendor |-> strippedGroup(text_lower, m.vendor_match)]
    ELSE <<>>

extractLower(text_lower, document_type) ==
    extractedFrom(text_lower, document_type, extractionSearch(text_lower))

extract_key_information(text, document_type) == extractLower(str_lower(text), document_type)

\* ------------------------------------------------------------------
\* The environment: what the Ollama server answers.
\*   probe:  the outcome of GET /api/tags
\*   reply:  the outcome of POST /api/generate.  transport is the HTTP
\*           outcome; response is the "response" string of the body;
\*           json describes what json.loads makes of the stripped string:
\*           ok (parseable), top (the type of the parsed value) and, for
\*           an object, the keys it has and their values.
\* ------------------------------------------------------------------
ProbeOutcomes == {"200", "500", "connection_error", "timeout", "other_error"}

ReplyKeys == {"document_type", "confidence", "reasoning", "intent", "urgency"}

NoJson == [ok |-> FALSE, top |-> "none", has |-> {}, val |-> [k \in ReplyKeys |-> PyNone]]

JsonTop(top) == [ok |-> TRUE, top |-> top, has |-> {}, val |-> [k \in ReplyKeys |-> PyNone]]

Failure(transport) == [transport |-> transport, response |-> "", json |-> NoJson]

Answer(response, json) == [transport |-> "ok", response |-> response, json |-> json]

NoReply == Failure("none")

TransportFailures ==
    {Failure(x) : x \in {"timeout", "connection_error", "http_error", "body_not_json"}}

UnusableAnswers ==
    {Answer("", NoJson), Answer("  \n", NoJson),
     Answer("I think this is an invoice.", NoJson),
     Answer("[1, 2]", JsonTop("list")), Answer("42", JsonTop("num")),
     Answer("\"INVOICE\"", JsonTop("str")), Answer("null", JsonTop("null"))}

Missing == [t |-> "missing", s |-> "", n |-> 0]

\* a JSON object with these values; Missing leaves the key out
ObjectAnswer(vals) ==
    Answer(" {...} ",
           [ok |-> TRUE, top |-> "dict",
            has |-> {k \in ReplyKeys : vals[k] # Missing},
            val |-> [k \in ReplyKeys |-> IF vals[k] = Missing THEN PyNone ELSE vals[k]]])

DocTypeAnswers ==
    {Missing, PyNone, PyNum(500), PyStr("MEMO"), PyStr("invoice"),
     PyStr("INVOICE"), PyStr("PURCHASE_ORDER"), PyStr("CONTRACT")}

ConfidenceAnswers ==
    {Missing, PyNone, PyList, PyStr("high"), PyBool(TRUE),
     PyNum(0), PyNum(85), PyNum(100), PyNum(250), PyNum(-50)}

ReasoningAnswers == {Missing, PyStr("looks like it")}

ClassifierReplies ==
    TransportFailures \cup UnusableAnswers \cup
    {ObjectAnswer([k \in ReplyKeys |->
                     CASE k = "document_type" -> d
                       [] k = "confidence" -> c
                       [] k = "reasoning" -> r
                       [] OTHER -> Missing]) :
        d \in DocTypeAnswers, c \in ConfidenceAnswers, r \in ReasoningAnswers}

IntentAnswers ==
    {Missing, PyNum(100), PyStr("Order"), PyStr("Other"), PyStr("Spam"), PyStr("Support")}

UrgencyAnswers == {Missing, PyNone, PyStr("High"), PyStr("Blazing")}

EmailReplies ==
    TransportFailures \cup UnusableAnswers \cup
    {ObjectAnswer([k \in ReplyKeys |->
                     CASE k = "intent" -> i
                       [] k = "urgency" -> u
                       [] OTHER -> Missing]) :
        i \in IntentAnswers, u \in UrgencyAnswers}

\* ------------------------------------------------------------------
\* utils/llm_utils.py: call_ollama_llm.  One POST, no retry; every
\* failure is re-raised.  Returns the stripped response text.
\* ------------------------------------------------------------------
call_ollama_llm(reply) ==
    IF reply.transport # "ok"
    THEN [raised |-> TRUE, text |-> ""]
    ELSE IF str_strip(reply.response) = ""
    THEN [raised |-> TRUE, text |-> ""]
    ELSE [raised |-> FALSE, text |-> str_strip(reply.response)]

\* ------------------------------------------------------------------
\* ClassifierAgent.check_ollama_connection
\* ------------------------------------------------------------------
\* a mutation of check_ollama_connection: the outcome of the probe is ignored
probeIgnored(available, outcome) == available

check_ollama_connection(available, outcome) ==
    IF ~available THEN FALSE ELSE outcome = "200"

\* ------------------------------------------------------------------
\* The prompts.  Each is a fixed template around one interpolated text; the
\* model keeps the interpolated text.
\* ------------------------------------------------------------------
PromptBudget == 2000

\* t[:n]
str_prefix(t, n) == SubSeq(t, 1, Min(Len(t), n))

\* classify_with_llm, line 126: {text[:2000]}
document_in_prompt(document) == [document EXCEPT !.s = str_prefix(document.s, PromptBudget)]

\* _classify_email_intent_with_llm, line 113: {email_text}
email_in_prompt(email_text) == email_text

\* ------------------------------------------------------------------
\* ClassifierAgent.classify_with_llm.  LlmNone is the None it returns.
\* ------------------------------------------------------------------
LlmNone == [none |-> TRUE, document_type |-> PyNone, confidence |-> PyNone,
            has_reasoning |-> FALSE, reasoning |-> PyNone]

\* isinstance(v, (str, float, int)); bool is a subclass of int
isStrFloatInt(v) == v.t \in {"str", "num", "bool"}

\* format(v, ".2f") succeeds
formatsAsFloat(v) == v.t \in {"num", "bool"}

\* a mutation of inTaxonomy: any string passes
anyCategoryName(d) == d.t = "str"

\* line 145: classification_result['document_type'] in self.document_types.keys()
inTaxonomy(d) == d.t = "str" /\ d.s \in DocTypes

classify_with_llm(available, reply) ==
    IF ~available THEN LlmNone
    ELSE LET r == call_ollama_llm(reply)
             j == reply.json
         IN IF r.raised THEN LlmNone
            ELSE IF r.text = "" THEN LlmNone
            ELSE IF ~j.ok THEN LlmNone
            ELSE IF j.top # "dict" THEN LlmNone
            ELSE IF ~(/\ \A key \in {"document_type", "confidence"} :
                            key \in j.has /\ isStrFloatInt(j.val[key])
                      /\ "reasoning" \in j.has)
            THEN LlmNone
            ELSE IF ~inTaxonomy(j.val["document_type"]) THEN LlmNone
            ELSE IF ~formatsAsFloat(j.val["confidence"]) THEN LlmNone
            ELSE [none |-> FALSE,
                  document_type |-> j.val["document_type"],
                  confidence |-> j.val["confidence"],
                  has_reasoning |-> TRUE,
                  reasoning |-> j.val["reasoning"]]

\* ------------------------------------------------------------------
\* EmailAgent._rule_based_email_intent
\* ------------------------------------------------------------------
anyKeyword(text_lower, keywords) == \E k \in keywords : str_contains(text_lower, k)

\* a mutation of rule_based_email_intent: the Critical keywords are tried
\* before the High keywords
criticalBeforeHigh(email_text) ==
    LET email_text_lower == str_lower(email_text)
        intent ==
            IF anyKeyword(email_text_lower, {"quote", "quotation", "estimate", "pricing"})
            THEN "Quote Request"
            ELSE IF anyKeyword(email_text_lower, {"order", "purchase", "procure", "buy"})
            THEN "Order"
            ELSE IF anyKeyword(email_text_lower,
                               {"support", "help", "issue", "problem", "bug", "trouble"})
            THEN "Support"
            ELSE IF anyKeyword(email_text_lower,
                               {"feedback", "suggestion", "review", "complaint"})
            THEN "Feedback"
            ELSE "General Inquiry"
        urgency ==
            IF anyKeyword(email_text_lower, {"blocker", "outage"})
            THEN "Critical"
            ELSE IF anyKeyword(email_text_lower,
                               {"urgent", "asap", "immediately", "critical", "down", "halted"})
            THEN "High"
            ELSE "Normal"
    IN [intent |-> PyStr(intent), urgency |-> PyStr(urgency)]

\* a mutation of rule_based_email_intent: the Order rule is tried before
\* the Quote Request rule
orderBeforeQuote(email_text) ==
    LET email_text_lower == str_lower(email_text)
        intent ==
            IF anyKeyword(email_text_lower, {"order", "purchase", "procure", "buy"})
            THEN "Order"
            ELSE IF anyKeyword(email_text_lower, {"quote", "quotation", "estimate", "pricing"})
            THEN "Quote Request"
            ELSE IF anyKeyword(email_text_lower,
                               {"support", "help", "issue", "problem", "bug", "trouble"})
            THEN "Support"
            ELSE IF anyKeyword(email_text_lower,
                               {"feedback", "suggestion", "review", "complaint"})
            THEN "Feedback"
            ELSE "General Inquiry"
        urgency ==
            IF anyKeyword(email_text_lower,
                          {"urgent", "asap", "immediately", "critical", "down", "halted"})
            THEN "High"
            ELSE IF anyKeyword(email_text_lower, {"blocker", "outage"})
            THEN "Critical"
            ELSE "Normal"
    IN [intent |-> PyStr(intent), urgency |-> PyStr(urgency)]

rule_based_email_intent(email_text) ==
    LET email_text_lower == str_lower(email_text)
        intent ==
            IF anyKeyword(email_text_lower, {"quote", "quotation", "estimate", "pricing"})
            THEN "Quote Request"
            ELSE IF anyKeyword(email_text_lower, {"order", "purchase", "procure", "buy"})
            THEN "Order"
            ELSE IF anyKeyword(email_text_lower,
                               {"support", "help", "issue", "problem", "bug", "trouble"})
            THEN "Support"
            ELSE IF anyKeyword(email_text_lower,
                               {"feedback", "suggestion", "review", "complaint"})
            THEN "Feedback"
            ELSE "General Inquiry"
        urgency ==
            IF anyKeyword(email_text_lower,
                          {"urgent", "asap", "immediately", "critical", "down", "halted"})
            THEN "High"
            ELSE IF anyKeyword(email_text_lower, {"blocker", "outage"})
            THEN "Critical"
            ELSE "Normal"
    IN [intent |-> PyStr(intent), urgency |-> PyStr(urgency)]

\* ------------------------------------------------------------------
\* EmailAgent._classify_email_intent_with_llm: returns the classification
\* or raises (raised = TRUE)
\* ------------------------------------------------------------------
allowed_intents == {"Quote Request", "Order", "General Inquiry", "Support", "Feedback", "Other"}
allowed_urgencies == {"Low", "Normal", "High", "Critical"}

EmailRaise == [raised |-> TRUE, intent |-> PyNone, urgency |-> PyNone]

classify_email_intent_with_llm(available, reply) ==
    IF ~available THEN EmailRaise
    ELSE LET r == call_ollama_llm(reply)
             j == reply.json
         IN IF r.raised THEN EmailRaise
            ELSE IF ~j.ok THEN EmailRaise
            ELSE IF j.top # "dict" THEN EmailRaise
            ELSE IF /\ "intent" \in j.has /\ "urgency" \in j.has
                    /\ j.val["intent"].t = "str" /\ j.val["urgency"].t = "str"
            THEN [raised |-> FALSE,
                  intent |-> IF j.val["intent"].s \notin allowed_intents
                             THEN PyStr("Other") ELSE j.val["intent"],
                  urgency |-> IF j.val["urgency"].s \notin allowed_urgencies
                              THEN PyStr("Normal") ELSE j.val["urgency"]]
            ELSE EmailRaise

\* ------------------------------------------------------------------
\* The inputs of the two entry points
\* ------------------------------------------------------------------
RECURSIVE Repeat(_, _)
Repeat(unit, k) ==
    IF k = 0 THEN ""
    ELSE IF k = 1 THEN unit
    ELSE Repeat(unit, k \div 2) \o Repeat(unit, k - k \div 2)

\* a text of 2036 characters, longer than the budget of a prompt
LongText ==
    "Invoice #77 total: 12.50 " \o Repeat("lorem ipsum ", 166) \o "purchase order po-9"

SampleTextSeq ==
    <<"Invoice #INV-2023-001\nTotal Amount: $1250.75\nDue Date: 11/15/2024",
      "Request for Quotation: We need pricing for 500 units of widgets, ASAP.",
      "This Agreement is made this 1st day of January, 2024, between Party A and Party B.",
      "Purchase Order No. PO-45678 from Vendor Solutions for 100 keyboards.",
      "Thank you for your payment. Receipt #REC-99887. Total Paid: €50.00.",
      "Hi, I have a general question about your service uptime. Could you provide some details?",
      "Just a casual hello.",
      "Invoice No: 554321, Amount Due: $345.67",
      "Urgent support needed, my system is completely down, fix immediately!",
      "Bill 77 subtotal: 1,250.5 payment due 2024-11-15 purchase order #9 vendor: Acme",
      LongText>>

SampleTexts == {SampleTextSeq[i] : i \in 1..Len(SampleTextSeq)}

BlankTexts == {"", " ", " \n\t "}

DocumentInputs ==
    {PyStr(x) : x \in SampleTexts \cup BlankTexts}
    \cup {PyNone, PyNum(500), PyNum(0), PyBytes("invoice 42")}

\* classify_with_rules and extract_key_information over the texts above, as
\* tuples: TLC computes a constant tuple once instead of once per state.
\* RuleResults[i] is classify_with_rules(SampleTextSeq[i]), ExtractedInfo[i][j]
\* is extract_key_information(SampleTextSeq[i], DocTypeOrder[j]).
RECURSIVE rulesFrom(_)
rulesFrom(i) ==
    IF i > Len(SampleTextSeq) THEN <<>>
    ELSE <<classify_with_rules(SampleTextSeq[i])>> \o rulesFrom(i + 1)

RuleResults == rulesFrom(1)

RECURSIVE extractRow(_, _)
extractRow(x, j) ==
    IF j > Len(DocTypeOrder) THEN <<>>
    ELSE <<extract_key_information(x, PyStr(DocTypeOrder[j]))>> \o extractRow(x, j + 1)

RECURSIVE extractFrom(_)
extractFrom(i) ==
    IF i > Len(SampleTextSeq) THEN <<>>
    ELSE <<extractRow(SampleTextSeq[i], 1)>> \o extractFrom(i + 1)

ExtractedInfo == extractFrom(1)

textIndex(x) == CHOOSE i \in 1..Len(SampleTextSeq) : SampleTextSeq[i] = x
typeIndex(d) == CHOOSE j \in 1..Len(DocTypeOrder) : DocTypeOrder[j] = d

SampleEmails ==
    {"Hi, can I get a quote for 100 widgets? This is urgent.",
     "Please process a new purchase order for item XYZ. It's not critical.",
     "Just a general question about your services.",
     "Our system is down, critical support needed immediately!",
     "I have some feedback regarding your recent update.",
     "Empty email",
     "I would like to inquire about partnership opportunities.",
     "Production outage, this is a blocker for the release.",
     "Need a quote for my order asap, support is not helping.",
     "URGENT: outage in billing, all shipments halted.",
     LongText}

EmailStr(x) == [kind |-> "str", v |-> PyStr(x), body |-> PyNone, text |-> PyNone]
EmailDict(b, x) == [kind |-> "dict", v |-> PyNone, body |-> b, text |-> x]
EmailOther(v) == [kind |-> "other", v |-> v, body |-> PyNone, text |-> PyNone]

EmailInputs ==
    {EmailStr(x) : x \in SampleEmails \cup BlankTexts}
    \cup {EmailDict(PyStr("Please process a new purchase order for item XYZ. It's not critical."),
                    PyNone),
          EmailDict(PyNone, PyStr("I would like to inquire about partnership opportunities.")),
          EmailDict(PyStr(""), PyStr("Our system is down, critical support needed immediately!")),
          EmailDict(PyNone, PyNone),
          EmailDict(PyNum(500), PyNone),
          EmailDict(PyNone, PyList),
          EmailOther(PyNone), EmailOther(PyNum(4200)), EmailOther(PyList)}

\* ------------------------------------------------------------------
\* The Ollama server addresses.  The probe goes to self.ollama_url
\* (classifier_agent.py line 77); call_ollama_llm posts to the address its
\* line 25 spells out.
\* ------------------------------------------------------------------
DefaultOllamaUrl == "http://localhost:11434"

OllamaUrls == {DefaultOllamaUrl, "http://gpu-box:11434"}

TagsUrl(url) == url \o "/api/tags"

GenerateUrl == "http://localhost:11434/api/generate"

\* ------------------------------------------------------------------
\* memory/shared_memory.py: SharedMemory.  logs is a sequence of dicts;
\* the log file is absent, holds a JSON array, or holds something json.load
\* rejects.
\* ------------------------------------------------------------------
PyDict(conversation_id, type) ==
    [t |-> "dict", conversation_id |-> conversation_id, type |-> type]

NoFile == [exists |-> FALSE, valid |-> FALSE, array |-> <<>>]

CorruptFile == [exists |-> TRUE, valid |-> FALSE, array |-> <<>>]

JsonArrayFile(a) == [exists |-> TRUE, valid |-> TRUE, array |-> a]

\* datetime.now().strftime('%Y%m%d_%H%M%S')
Times == {"20240614_101500"}

\* a mutation of initialize: without a file the store starts empty, as the
\* log line of that branch says
initializeEmptyWithoutFile(old_logs, file) ==
    IF file.exists /\ file.valid THEN file.array ELSE <<>>

\* SharedMemory.initialize: logs after the call
initialize(old_logs, file) ==
    IF ~file.exists THEN old_logs
    ELSE IF file.valid THEN file.array
    ELSE <<>>

\* a mutation of store_result: the append comes before the type test
appendBeforeTypeTest(old_logs, data, now) ==
    IF data.t # "dict" THEN Append(old_logs, data)
    ELSE IF data.conversation_id = Missing
    THEN Append(old_logs, [data EXCEPT !.conversation_id = PyStr("generic_" \o now)])
    ELSE Append(old_logs, data)

\* SharedMemory.store_result: logs after the call
store_result(old_logs, data, now) ==
    IF data.t # "dict" THEN old_logs
    ELSE IF data.conversation_id = Missing
    THEN Append(old_logs, [data EXCEPT !.conversation_id = PyStr("generic_" \o now)])
    ELSE Append(old_logs, data)

SaveOutcomes == {"ok", "open_failed", "write_failed"}

\* what json.load reads back of a value json.dump wrote: a tuple is written
\* as an array and read as a list; None, bool, numbers and str come back equal
json_value(v) == IF v.t = "tuple" THEN PyList ELSE v

json_record(entry) == [entry EXCEPT !.conversation_id = json_value(entry.conversation_id)]

RECURSIVE json_array(_, _)
json_array(a, k) ==
    IF k > Len(a) THEN <<>> ELSE <<json_record(a[k])>> \o json_array(a, k + 1)

\* SharedMemory._save_to_file: the file after the call, a file being what
\* json.load reads of it.  open(..., 'w') truncates; a failure after it
\* (the disk, or a record json cannot encode) leaves a file that is not the
\* array.
save_to_file(file, new_logs, io) ==
    IF io = "ok" THEN JsonArrayFile(json_array(new_logs, 1))
    ELSE IF io = "open_failed" THEN file
    ELSE CorruptFile

\* the line _save_to_file logs: info after the dump, error in the handlers
save_logged(io) == IF io = "ok" THEN "info" ELSE "error"

\* SharedMemory.get_conversation_results
get_conversation_results(all_logs, conversation_id) ==
    SelectSeq(all_logs, LAMBDA entry : entry.conversation_id = PyStr(conversation_id))

\* SharedMemory.get_all_results
get_all_results(all_logs) == all_logs

\* what callers hand to store_result
StoreData ==
    {PyDict(PyStr("conv_001"), "PDF"), PyDict(Missing, "Email"),
     PyDict(PyTuple, "PDF"),
     PyStr("this is a string, not a dict")}

ConversationIds == {"conv_001", "conv_404"}

\* ------------------------------------------------------------------
\* agents/json_agent.py: JsonAgent.process_json.
\* A JSON value: t is its Python type after json.load, s the text of a
\* string, n the value of an int, the hundredths of a float or the exponent
\* of the integer 10^n (t = "bigint"), keys the keys of a dict.
\* ------------------------------------------------------------------
JNull == [t |-> "none", s |-> "", n |-> 0, keys |-> {}]
JStr(x) == [t |-> "str", s |-> x, n |-> 0, keys |-> {}]
JInt(i) == [t |-> "int", s |-> "", n |-> i, keys |-> {}]
JFloat(h) == [t |-> "float", s |-> "", n |-> h, keys |-> {}]
JBool(b) == [t |-> "bool", s |-> "", n |-> IF b THEN 1 ELSE 0, keys |-> {}]
JPowerOfTen(e) == [t |-> "bigint", s |-> "", n |-> e, keys |-> {}]
JList == [t |-> "list", s |-> "", n |-> 0, keys |-> {}]
JObj(ks) == [t |-> "dict", s |-> "", n |-> 0, keys |-> ks]
JMissing == [t |-> "missing", s |-> "", n |-> 0, keys |-> {}]

TARGET_SCHEMA == <<"id", "date", "amount", "customer", "items", "currency">>

SchemaFields == {TARGET_SCHEMA[i] : i \in 1..Len(TARGET_SCHEMA)}

\* the largest e for which float(10^e) is finite
MaxFloatExp10 == 308

\* the text float() accepts, after strip()
DigitPart == Cat(<<Plus(Cls(DIGIT)), Star(Cat(<<Lit("_"), Plus(Cls(DIGIT))>>))>>)

FloatLiteral ==
    Cat(<<Opt(Cls({"+", "-"})),
          Alt(<<Cat(<<DigitPart, Opt(Cat(<<Lit("."), Opt(DigitPart)>>)),
                      Opt(Cat(<<Cls({"e"}), Opt(Cls({"+", "-"})), DigitPart>>))>>),
                Cat(<<Lit("."), DigitPart,
                      Opt(Cat(<<Cls({"e"}), Opt(Cls({"+", "-"})), DigitPart>>))>>),
                Lit("infinity"), Lit("inf"), Lit("nan")>>)>>)

endsAt(ms, e) == \E j \in 1..Len(ms) : ms[j].e = e

fullmatch(re, t) == endsAt(reAll(re, t, 1, <<>>), Len(t) + 1)

\* float(v): "ok" or the exception raised
float_of(v) ==
    IF v.t \in {"int", "float", "bool"} THEN "ok"
    ELSE IF v.t = "bigint" THEN (IF v.n > MaxFloatExp10 THEN "OverflowError" ELSE "ok")
    ELSE IF v.t = "str"
    THEN (IF fullmatch(FloatLiteral, str_lower(str_strip(v.s))) THEN "ok" ELSE "ValueError")
    ELSE "TypeError"

\* the value float(v) gives
as_float(v) ==
    IF v.t = "int" THEN JFloat(100 * v.n)
    ELSE IF v.t = "bool" THEN JFloat(100 * v.n)
    ELSE [v EXCEPT !.t = "float"]

\* what is at file_path: nothing, something open() or the decoder refuses,
\* text json.load rejects, or a JSON value (val holds the fields of an object)
JsonFile(kind, top, val) == [kind |-> kind, top |-> top, val |-> val]

NoFields == [f \in SchemaFields |-> JMissing]

JsonObject(val) == JsonFile("json", "dict", val)

Fields(id, amount, customer) ==
    [f \in SchemaFields |->
        CASE f = "id" -> id
          [] f = "amount" -> amount
          [] f = "customer" -> customer
          [] f = "date" -> JStr("2024-06-14")
          [] OTHER -> JMissing]

IdValues == {JMissing, JStr("INV-001-2024"), JInt(7), JFloat(150)}

AmountValues ==
    {JMissing, JNull, JFloat(150075), JInt(200), JBool(TRUE), JStr(" 1_500.75 "),
     JStr("1e3"), JStr("abc"), JStr("12,5"), JList, JPowerOfTen(308), JPowerOfTen(400)}

CustomerValues ==
    {JMissing, JStr("customer_string_instead_of_dict"), JObj({"name"}),
     JObj({"name", "email"})}

JsonFiles ==
    {JsonFile("absent", "none", NoFields), JsonFile("directory", "none", NoFields),
     JsonFile("not_utf8", "none", NoFields), JsonFile("syntax_error", "none", NoFields),
     JsonFile("json", "list", NoFields), JsonFile("json", "str", NoFields),
     JsonFile("json", "int", NoFields), JsonFile("json", "none", NoFields),
     JsonFile("json", "bool", NoFields), JsonObject(NoFields)}
    \cup {JsonObject(Fields(i, a, c)) :
            i \in IdValues, a \in AmountValues, c \in CustomerValues}

\* the files the DocumentProcessor is given
ProcessorJsonFiles ==
    {JsonFile("absent", "none", NoFields), JsonFile("syntax_error", "none", NoFields),
     JsonFile("json", "list", NoFields),
     JsonObject(Fields(JStr("INV-001-2024"), JFloat(150075), JObj({"name", "email"}))),
     JsonObject(Fields(JStr("INV-001-2024"), JPowerOfTen(400), JObj({"name", "email"})))}

JsonDefaults ==
    [success |-> FALSE, agent |-> "JSON_Agent", processed_data |-> <<>>,
     missing_fields |-> <<>>, validation_errors |-> <<>>,
     error_message |-> PyNone, status |-> "failed"]

\* lines 137-154: the three except clauses
json_failed(r, status, message) ==
    [r EXCEPT !.status = status, !.error_message = PyStr(message)]

\* line 88
missing_fields(val) ==
    SelectSeq(TARGET_SCHEMA, LAMBDA field : val[field] = JMissing)

\* line 95: json_data.get(field, None)
reformatted(val) ==
    [f \in SchemaFields |-> IF val[f] = JMissing THEN JNull ELSE val[f]]

\* lines 100-110
customer_errors(customer) ==
    IF customer.t = "none" THEN <<>>
    ELSE IF customer.t # "dict" THEN <<"'customer' field is not a dictionary">>
    ELSE IF "name" \notin customer.keys \/ "email" \notin customer.keys
    THEN <<"'customer' dictionary is missing 'name' or 'email'">>
    ELSE <<>>

\* lines 113-119, for the exceptions the except clause names
amount_errors(amount) ==
    IF amount.t = "none" THEN <<>>
    ELSE IF float_of(amount) \in {"ValueError", "TypeError"}
    THEN <<"'amount' field is not a valid number">>
    ELSE <<>>

\* lines 122-126: isinstance(id, (str, int))
id_errors(id) ==
    IF id.t = "none" THEN <<>>
    ELSE IF id.t \notin {"str", "int", "bool", "bigint"}
    THEN <<"'id' field is not a valid string or integer">>
    ELSE <<>>

\* lines 86-135 for a JSON object
json_processed(r, data) ==
    IF data.amount.t # "none" /\ float_of(data.amount) = "OverflowError"
    THEN json_failed([r EXCEPT !.validation_errors = customer_errors(data.customer)],
                     "processing_failed", "int too large to convert to float")
    ELSE [r EXCEPT !.success = TRUE,
                   !.status = "processed",
                   !.validation_errors =
                       customer_errors(data.customer) \o amount_errors(data.amount)
                       \o id_errors(data.id),
                   !.processed_data =
                       IF data.amount.t # "none" /\ float_of(data.amount) = "ok"
                       THEN [data EXCEPT !.amount = as_float(data.amount)]
                       ELSE data]

process_json(file) ==
    IF file.kind = "absent"
    THEN json_failed(JsonDefaults, "file_not_found", "JSON file not found at: file_path")
    ELSE IF file.kind = "directory"
    THEN json_failed(JsonDefaults, "processing_failed", "[Errno 21] Is a directory")
    ELSE IF file.kind = "not_utf8"
    THEN json_failed(JsonDefaults, "processing_failed", "'utf-8' codec can't decode byte")
    ELSE IF file.kind = "syntax_error"
    THEN json_failed(JsonDefaults, "invalid_json", "Invalid JSON format: Expecting value")
    ELSE IF file.top \in {"int", "none", "bool"}
    THEN json_failed(JsonDefaults, "processing_failed", "argument is not iterable")
    ELSE IF file.top \in {"list", "str"}
    THEN json_failed([JsonDefaults EXCEPT !.missing_fields = TARGET_SCHEMA],
                     "processing_failed", "object has no attribute 'get'")
    ELSE json_processed([JsonDefaults EXCEPT !.missing_fields = missing_fields(file.val)],
                        reformatted(file.val))

\* ------------------------------------------------------------------
\* PDFAgent (agents/pdf_agent.py).  A file is what the agent meets at
\* file_path: whether os.path finds a file there, its extension, what
\* pdfplumber.open does, and what extract_text() gives for each page.
\* utils.file_utils is importable in this repository, so
\* file_utils_available is true.
\* ------------------------------------------------------------------
MaxTextLength == 4000

Digit == <<"1", "2", "3", "4", "5", "6", "7", "8", "9">>

PageMarkerRe == Cat(<<Lit("--- Page "), Plus(Cls(DIGIT)), Lit(" ---")>>)

\* the concatenation of the strings ps[lo..hi], by halves
RECURSIVE concat(_, _, _)
concat(ps, lo, hi) ==
    IF lo > hi THEN ""
    ELSE IF lo = hi THEN ps[lo]
    ELSE concat(ps, lo, (lo + hi) \div 2) \o concat(ps, (lo + hi) \div 2 + 1, hi)

\* ' '.join(t.split()): no blank at the ends, one space for each run inside
split_join(t) ==
    concat([i \in 1..Len(t) |->
               IF i < firstNonWs(t, 1) \/ i > lastNonWs(t, Len(t)) THEN ""
               ELSE IF charAt(t, i) \notin WS THEN charAt(t, i)
               ELSE IF charAt(t, i - 1) \notin WS THEN " "
               ELSE ""],
           1, Len(t))

\* t from position from on, without the spans a left-to-right scan takes from P
RECURSIVE withoutSpans(_, _, _)
withoutSpans(t, P, from) ==
    IF \A q \in P : q[1] < from THEN SubSeq(t, from, Len(t))
    ELSE SubSeq(t, from, firstSpanFrom(P, from)[1] - 1)
         \o withoutSpans(t, P, scanResume(firstSpanFrom(P, from)))

\* re.sub(pattern, '', t)
re_sub_empty(re, t) == withoutSpans(t, spansOf(matchesAt(re, t)), 1)

\* validate_pdf_file: True, False, or the exception that leaves it.  The
\* first except clause names pdfplumber.PDFSyntaxError: where the installed
\* pdfplumber has no such attribute, handling any exception of the try body
\* raises AttributeError instead.
validate_pdf_file(file) ==
    IF ~file.is_file THEN [valid |-> FALSE, raised |-> FALSE]
    ELSE IF file.ext # ".pdf" THEN [valid |-> FALSE, raised |-> FALSE]
    ELSE IF file.opening = "ok" THEN [valid |-> TRUE, raised |-> FALSE]
    ELSE IF file.has_syntax_error_class THEN [valid |-> FALSE, raised |-> FALSE]
    ELSE [valid |-> FALSE, raised |-> TRUE]

\* the text of pages[k..], each page that has text under its marker
RECURSIVE pages_text(_, _)
pages_text(pages, k) ==
    IF k > Len(pages) THEN ""
    ELSE (IF truthy(pages[k]) THEN "\n--- Page " \o Digit[k] \o " ---\n" \o pages[k].s ELSE "")
         \o pages_text(pages, k + 1)

\* extract_text_from_pdf
extract_text_from_pdf(file) ==
    IF file.extracting # "ok" THEN PyNone
    ELSE IF Len(file.pages) = 0 THEN PyNone
    ELSE IF str_strip(pages_text(file.pages, 1)) = "" THEN PyNone
    ELSE PyStr(str_strip(pages_text(file.pages, 1)))

\* the truncation of preprocess_text (lines 170-173)
truncated(t) ==
    IF Len(t) > MaxTextLength THEN SubSeq(t, 1, MaxTextLength) \o "..." ELSE t

\* preprocess_text
preprocess_text(t) == truncated(str_strip(re_sub_empty(PageMarkerRe, split_join(t))))

PdfDefaults ==
    [success |-> FALSE, agent |-> "PDF_Agent", extracted_text |-> PyNone,
     has_metadata |-> FALSE, error_message |-> PyNone]

\* the result once the text is there (lines 271-285)
pdf_processed(r, raw_text) ==
    [r EXCEPT !.success = TRUE,
              !.extracted_text = PyStr(preprocess_text(raw_text)),
              !.has_metadata = TRUE]

\* result.get('error_message', default): the dict has the key since line 249,
\* so this is its value, None, and never the default
get_error_message(r, default) == r.error_message

\* process_pdf
process_pdf(file) ==
    IF validate_pdf_file(file).raised
    THEN [PdfDefaults EXCEPT !.error_message =
             PyStr("module 'pdfplumber' has no attribute 'PDFSyntaxError'")]
    ELSE IF ~validate_pdf_file(file).valid
    THEN [PdfDefaults EXCEPT !.error_message =
             get_error_message(PdfDefaults,
                               PyStr("PDF validation failed for unknown reason."))]
    ELSE IF extract_text_from_pdf(file) = PyNone
    THEN [PdfDefaults EXCEPT !.error_message =
             PyStr("Text extraction failed or no readable text found in PDF."),
                             !.has_metadata = TRUE]
    ELSE pdf_processed(PdfDefaults, extract_text_from_pdf(file).s)

\* the files
PdfFile(is_file, ext, opening, has_syntax_error_class, pages, extracting) ==
    [is_file |-> is_file, ext |-> ext, opening |-> opening,
     has_syntax_error_class |-> has_syntax_error_class, pages |-> pages,
     extracting |-> extracting]

\* what page.extract_text() gives: None or '' for a page without text, or text
PageTexts ==
    {PyNone, PyStr(""), PyStr("Invoice #7\nTotal:   12.50 "), PyStr("--- Page 9 ---"),
     PyStr(LongText)}

PageLists ==
    {<<>>} \cup {<<a>> : a \in PageTexts} \cup {<<a, b>> : a \in PageTexts, b \in PageTexts}

PdfFiles ==
    {PdfFile(TRUE, ".pdf", "ok", TRUE, pages, extracting) :
        pages \in PageLists, extracting \in {"ok", "raises"}}
    \cup {PdfFile(FALSE, ".pdf", "ok", TRUE, <<>>, "ok"),
          PdfFile(TRUE, ".txt", "ok", TRUE, <<>>, "ok"),
          PdfFile(TRUE, "", "ok", TRUE, <<>>, "ok")}
    \cup {PdfFile(TRUE, ".pdf", opening, e, <<>>, "ok") :
             opening \in {"syntax_error", "error"}, e \in BOOLEAN}

\* ------------------------------------------------------------------
\* State
\* ------------------------------------------------------------------
VARIABLES
    llm_utils_available,  \* _llm_utils_available: did "from utils.llm_utils import ..." succeed
    ollama_url,           \* self.ollama_url, the constructor's argument
    pc,                   \* where the running request is
    agent,                \* the entry point of the running request
    input,                \* its argument
    request_text,         \* the text being classified (text / email_text)
    probe,                \* the outcome of the connectivity probe of this request
    llm_reply,            \* the answer to the generation call of this request
    llm_result,           \* llm_result of classify_document
    result,               \* the result dict
    calls,                \* the calls made by this request, in order
    sent,                 \* the URLs of the HTTP requests of this request, in order
    prompts,              \* the text each prompt of this request carries, in order
    logs,                 \* SharedMemory.logs
    log_file,             \* output_logs/shared_memory.json
    processor,            \* this process constructed a DocumentProcessor
    op,                   \* the last operation on the store or the processor
    returned              \* what it returned

configuration == <<llm_utils_available, ollama_url>>

store == <<logs, log_file, processor, op, returned>>

vars == <<llm_utils_available, ollama_url, pc, agent, input, request_text, probe, llm_reply,
          llm_result, result, calls, sent, prompts, logs, log_file, processor, op, returned>>

ClassifierDefaults ==
    [success |-> FALSE, agent |-> "Classifier_Agent", document_type |-> PyNone,
     confidence |-> PyNum(0), method_used |-> PyNone, reasoning |-> PyNone,
     extracted_info |-> <<>>, error_message |-> PyNone]

EmailDefaults ==
    [success |-> FALSE, agent |-> "Email_Agent", intent |-> PyStr("Unknown"),
     urgency |-> PyStr("Unknown"), method_used |-> PyNone, error_message |-> PyNone]

\* what the last operation returned: nothing, a list of records, a result
NoReturn == [kind |-> "none"]
ReturnedList(list) == [kind |-> "list", list |-> list]
ReturnedResult(r) == [kind |-> "result", result |-> r]
Logged(level) == [kind |-> "logged", level |-> level]

\* the store as a process finds it before anything ran
StoreIdle ==
    /\ logs = <<>>
    /\ log_file = NoFile
    /\ processor = FALSE
    /\ op = "none"
    /\ returned = NoReturn

Init ==
    /\ llm_utils_available \in BOOLEAN
    /\ ollama_url \in OllamaUrls
    /\ sent = <<>>
    /\ prompts = <<>>
    /\ StoreIdle
    /\ pc = "idle"
    /\ agent = "none"
    /\ input = PyNone
    /\ request_text = PyNone
    /\ probe = "none"
    /\ llm_reply = NoReply
    /\ llm_result = LlmNone
    /\ result = PyNone
    /\ calls = <<>>

\* text.strip() exists
hasStrip(v) == v.t \in {"str", "bytes"}

\* ------------------------------------------------------------------
\* ClassifierAgent.classify_document, step by step
\* ------------------------------------------------------------------
\* lines 268-287: the result with its defaults, the empty-text exit, and the
\* except clause for a text that has no strip()
ClassifyDocument(x) ==
    /\ pc = "idle"
    /\ agent' = "classifier"
    /\ input' = x
    /\ request_text' = x
    /\ probe' = "none"
    /\ llm_reply' = NoReply
    /\ llm_result' = LlmNone
    /\ calls' = <<>>
    /\ sent' = <<>>
    /\ prompts' = <<>>
    /\ IF ~truthy(x)
       THEN /\ result' = [ClassifierDefaults EXCEPT !.error_message =
                             PyStr("Empty or invalid text provided for classification.")]
            /\ pc' = "returned"
       ELSE IF ~hasStrip(x)
       THEN /\ result' = [ClassifierDefaults EXCEPT !.error_message =
                             PyStr("object has no attribute 'strip'")]
            /\ pc' = "returned"
       ELSE IF str_strip(x.s) = ""
       THEN /\ result' = [ClassifierDefaults EXCEPT !.error_message =
                             PyStr("Empty or invalid text provided for classification.")]
            /\ pc' = "returned"
       ELSE /\ result' = ClassifierDefaults
            /\ pc' = IF llm_utils_available THEN "cd_probe" ELSE "cd_decide"
    /\ UNCHANGED <<configuration, store>>

\* line 289: self.check_ollama_connection()
CheckOllamaConnection(outcome) ==
    /\ pc = "cd_probe"
    /\ probe' = outcome
    /\ calls' = Append(calls, "probe")
    /\ sent' = Append(sent, TagsUrl(ollama_url))
    /\ prompts' = prompts
    /\ pc' = IF check_ollama_connection(llm_utils_available, outcome)
             THEN "cd_llm" ELSE "cd_decide"
    /\ UNCHANGED <<configuration, store, agent, input, request_text, llm_reply, llm_result, result>>

\* a mutation of ClassifyWithLlm: a call that timed out is made once more
ClassifyWithLlmRetrying(reply) ==
    /\ pc = "cd_llm"
    /\ llm_reply' = reply
    /\ calls' = Append(calls, "generate")
    /\ sent' = Append(sent, GenerateUrl)
    /\ prompts' = Append(prompts, document_in_prompt(request_text))
    /\ llm_result' = classify_with_llm(llm_utils_available, reply)
    /\ pc' = IF reply.transport = "timeout" /\ calls[Len(calls)] # "generate"
             THEN "cd_llm" ELSE "cd_decide"
    /\ UNCHANGED <<configuration, store, agent, input, request_text, probe, result>>

\* line 290: llm_result = self.classify_with_llm(text)
ClassifyWithLlm(reply) ==
    /\ pc = "cd_llm"
    /\ llm_reply' = reply
    /\ calls' = Append(calls, "generate")
    /\ sent' = Append(sent, GenerateUrl)
    /\ prompts' = Append(prompts, document_in_prompt(request_text))
    /\ llm_result' = classify_with_llm(llm_utils_available, reply)
    /\ pc' = "cd_decide"
    /\ UNCHANGED <<configuration, store, agent, input, request_text, probe, result>>

\* line 293: llm_result and llm_result.get('document_type')
\*           and llm_result.get('confidence') is not None
llmAccepted(r) ==
    /\ ~r.none
    /\ truthy(r.document_type)
    /\ r.confidence.t # "none"

\* a mutation of withRuleResult: method_used is left unset
ruleResultWithoutMethod(r, rule_result) ==
    [r EXCEPT !.success = TRUE,
              !.document_type = rule_result.document_type,
              !.confidence = rule_result.confidence,
              !.reasoning = rule_result.reasoning]

\* lines 305-312: the rule outcome goes into the result
withRuleResult(r, rule_result) ==
    [r EXCEPT !.success = TRUE,
              !.document_type = rule_result.document_type,
              !.confidence = rule_result.confidence,
              !.method_used = PyStr("Rule-based"),
              !.reasoning = rule_result.reasoning]

\* lines 316-319: the extracted information goes into the result; the log
\* line that follows formats the confidence with .2f, and when that raises
\* the handler of classify_document records the error
withExtractedInfo(r, extracted_info) ==
    IF formatsAsFloat(r.confidence)
    THEN [r EXCEPT !.extracted_info = extracted_info]
    ELSE [r EXCEPT !.extracted_info = extracted_info,
                   !.error_message = PyStr("Unknown format code 'f'")]

\* lines 292-313: take the model's answer or fall back to the rules
\* (str.count on bytes raises TypeError, which the except clause reports)
UseLlmOrRules ==
    /\ pc = "cd_decide"
    /\ IF llmAccepted(llm_result)
       THEN /\ result' = [result EXCEPT !.success = TRUE,
                                        !.document_type = llm_result.document_type,
                                        !.confidence = llm_result.confidence,
                                        !.method_used = PyStr("LLM"),
                                        !.reasoning = IF llm_result.has_reasoning
                                                      THEN llm_result.reasoning
                                                      ELSE PyStr("LLM-based classification")]
            /\ calls' = calls
            /\ pc' = "cd_extract"
       ELSE IF request_text.t # "str"
       THEN /\ result' = [result EXCEPT !.error_message =
                             PyStr("argument should be integer or bytes-like object, not 'str'")]
            /\ calls' = Append(calls, "rules")
            /\ pc' = "returned"
       ELSE /\ result' = withRuleResult(result, RuleResults[textIndex(request_text.s)])
            /\ calls' = Append(calls, "rules")
            /\ pc' = "cd_extract"
    /\ UNCHANGED <<configuration, store, sent, prompts, agent, input, request_text, probe, llm_reply, llm_result>>

\* lines 315-324: the extraction (a regex on bytes raises inside
\* extract_key_information, which catches it and returns {}), the final log
\* line, whose format can raise, and the return
ExtractAndReturn ==
    /\ pc = "cd_extract"
    /\ result' = withExtractedInfo(result,
                     IF request_text.t = "str" /\ result.document_type.s \in DocTypes
                     THEN ExtractedInfo[textIndex(request_text.s)][typeIndex(result.document_type.s)]
                     ELSE <<>>)
    /\ calls' = Append(calls, "extract")
    /\ pc' = "returned"
    /\ UNCHANGED <<configuration, store, sent, prompts, agent, input, request_text, probe, llm_reply, llm_result>>

\* ------------------------------------------------------------------
\* EmailAgent.process_email, step by step
\* ------------------------------------------------------------------
pyOr(a, b) == IF truthy(a) THEN a ELSE b

\* lines 179-206.  There is no try around them: email_text.strip() on a body
\* that is not a string raises out of process_email.
ProcessEmail(x) ==
    /\ pc = "idle"
    /\ agent' = "email"
    /\ input' = x
    /\ probe' = "none"
    /\ llm_reply' = NoReply
    /\ llm_result' = LlmNone
    /\ calls' = <<>>
    /\ sent' = <<>>
    /\ prompts' = <<>>
    /\ IF x.kind = "other"
       THEN /\ request_text' = PyStr("")
            /\ result' = [EmailDefaults EXCEPT !.error_message =
                             PyStr("Invalid email input type. Expected str or dict.")]
            /\ pc' = "returned"
       ELSE LET email_text == IF x.kind = "dict"
                              THEN pyOr(pyOr(x.body, x.text), PyStr(""))
                              ELSE x.v
            IN /\ request_text' = email_text
               /\ IF ~truthy(email_text)
                  THEN /\ result' = [EmailDefaults EXCEPT !.error_message =
                             PyStr("Empty or invalid email content provided for processing.")]
                       /\ pc' = "returned"
                  ELSE IF ~hasStrip(email_text)
                  THEN /\ result' = EmailDefaults
                       /\ pc' = "raised"
                  ELSE IF str_strip(email_text.s) = ""
                  THEN /\ result' = [EmailDefaults EXCEPT !.error_message =
                             PyStr("Empty or invalid email content provided for processing.")]
                       /\ pc' = "returned"
                  ELSE /\ result' = EmailDefaults
                       /\ pc' = IF llm_utils_available THEN "pe_llm" ELSE "pe_rules"
    /\ UNCHANGED <<configuration, store>>

\* lines 207-219: the model attempt; any exception leads to the rules
ClassifyEmailWithLlm(reply) ==
    /\ pc = "pe_llm"
    /\ llm_reply' = reply
    /\ calls' = Append(calls, "generate")
    /\ sent' = Append(sent, GenerateUrl)
    /\ prompts' = Append(prompts, email_in_prompt(request_text))
    /\ LET out == classify_email_intent_with_llm(llm_utils_available, reply)
       IN IF out.raised
          THEN /\ result' = result
               /\ pc' = "pe_rules"
          ELSE /\ result' = [result EXCEPT !.success = TRUE,
                                           !.intent = out.intent,
                                           !.urgency = out.urgency,
                                           !.method_used = PyStr("LLM")]
               /\ pc' = "returned"
    /\ UNCHANGED <<configuration, store, agent, input, request_text, probe, llm_result>>

\* lines 224-234: the rule-based fallback
RuleBasedEmail ==
    /\ pc = "pe_rules"
    /\ LET out == rule_based_email_intent(request_text.s)
       IN result' = [result EXCEPT !.success = TRUE,
                                   !.intent = out.intent,
                                   !.urgency = out.urgency,
                                   !.method_used = PyStr("Rule-based")]
    /\ calls' = Append(calls, "rules")
    /\ pc' = "returned"
    /\ UNCHANGED <<configuration, store, sent, prompts, agent, input, request_text, probe, llm_reply, llm_result>>

\* the caller has the result (or the exception); the request's locals are gone
Finish ==
    /\ pc \in {"returned", "raised"}
    /\ pc' = "idle"
    /\ agent' = "none"
    /\ input' = PyNone
    /\ request_text' = PyNone
    /\ probe' = "none"
    /\ llm_reply' = NoReply
    /\ llm_result' = LlmNone
    /\ result' = PyNone
    /\ calls' = <<>>
    /\ sent' = <<>>
    /\ prompts' = <<>>
    /\ UNCHANGED <<configuration, store>>

Next ==
    \/ \E x \in DocumentInputs : ClassifyDocument(x)
    \/ \E outcome \in ProbeOutcomes : CheckOllamaConnection(outcome)
    \/ \E reply \in ClassifierReplies : ClassifyWithLlm(reply)
    \/ UseLlmOrRules
    \/ ExtractAndReturn
    \/ \E x \in EmailInputs : ProcessEmail(x)
    \/ \E reply \in EmailReplies : ClassifyEmailWithLlm(reply)
    \/ RuleBasedEmail
    \/ Finish

Spec == Init /\ [][Next]_vars

\* ------------------------------------------------------------------
\* The result store and the DocumentProcessor (memory/shared_memory.py,
\* main.py), one operation per step.  The agents keep no state between
\* requests: a processing step draws the outcome of its agent calls.
\* ------------------------------------------------------------------
MaxLogs == 2

request ==
    <<pc, agent, input, request_text, probe, llm_reply, llm_result, result, calls, sent, prompts>>

\* the same but for input, which holds the argument of store_result
others == <<pc, agent, request_text, probe, llm_reply, llm_result, result, calls, sent, prompts>>

StoreInit ==
    /\ llm_utils_available = TRUE
    /\ ollama_url = DefaultOllamaUrl
    /\ pc = "idle"
    /\ agent = "none"
    /\ input = PyNone
    /\ request_text = PyNone
    /\ probe = "none"
    /\ llm_reply = NoReply
    /\ llm_result = LlmNone
    /\ result = PyNone
    /\ calls = <<>>
    /\ sent = <<>>
    /\ prompts = <<>>
    /\ logs = <<>>
    /\ log_file \in {NoFile, CorruptFile}
    /\ processor \in BOOLEAN
    /\ op = "start"
    /\ returned = NoReturn

\* a new process: the class attribute logs = [] (shared_memory.py line 13);
\* main() constructs a DocumentProcessor, whose __init__ (main.py lines 35-41)
\* does not call SharedMemory.initialize
StartProcess(with_processor) ==
    /\ logs' = <<>>
    /\ processor' = with_processor
    /\ op' = "start"
    /\ returned' = NoReturn
    /\ input' = PyNone
    /\ UNCHANGED <<configuration, others, log_file>>

Initialize ==
    /\ logs' = initialize(logs, log_file)
    /\ op' = "initialize"
    /\ returned' = NoReturn
    /\ input' = PyNone
    /\ UNCHANGED <<configuration, others, log_file, processor>>

StoreResult(data, now) ==
    /\ Len(logs) < MaxLogs
    /\ input' = data
    /\ logs' = store_result(logs, data, now)
    /\ op' = "store_result"
    /\ returned' = NoReturn
    /\ UNCHANGED <<configuration, others, log_file, processor>>

SaveToFile(io) ==
    /\ log_file' = save_to_file(log_file, logs, io)
    /\ op' = "_save_to_file"
    /\ returned' = Logged(save_logged(io))
    /\ input' = PyNone
    /\ UNCHANGED <<configuration, others, logs, processor>>

GetConversationResults(conversation_id) ==
    /\ op' = "get_conversation_results"
    /\ returned' = ReturnedList(get_conversation_results(logs, conversation_id))
    /\ input' = PyNone
    /\ UNCHANGED <<configuration, others, logs, log_file, processor>>

\* also what print_summary does (main.py line 223)
GetAllResults ==
    /\ op' = "get_all_results"
    /\ returned' = ReturnedList(get_all_results(logs))
    /\ input' = PyNone
    /\ UNCHANGED <<configuration, others, logs, log_file, processor>>

\* the record a processing step hands to the store
combined_result(prefix, type, now) == PyDict(PyStr(prefix \o now), type)

\* main.py lines 43-98: pdf_ok and classified are the success of
\* process_pdf and of classify_document
ProcessPdfDocument(pdf_ok, classified, now) ==
    /\ processor
    /\ Len(logs) < MaxLogs
    /\ logs' = IF pdf_ok /\ classified
               THEN store_result(logs, combined_result("pdf_", "PDF_DOCUMENT", now), now)
               ELSE logs
    /\ op' = "process_pdf_document"
    /\ returned' = ReturnedResult([success |-> pdf_ok /\ classified])
    /\ input' = PyNone
    /\ UNCHANGED <<configuration, others, log_file, processor>>

\* process_text_file without the test of result['success'] (main.py line 116)
ProcessTextFileStoringFailures(readable, success, now) ==
    /\ processor
    /\ Len(logs) < MaxLogs
    /\ logs' = IF readable
               THEN store_result(logs, combined_result("text_", "TEXT_DOCUMENT", now), now)
               ELSE logs
    /\ op' = "process_text_file"
    /\ returned' = ReturnedResult([success |-> readable /\ success])
    /\ input' = PyNone
    /\ UNCHANGED <<configuration, others, log_file, processor>>

\* main.py lines 100-133: readable is the outcome of open/read, success that
\* of process_email or classify_document
ProcessTextFile(readable, success, now) ==
    /\ processor
    /\ Len(logs) < MaxLogs
    /\ logs' = IF readable /\ success
               THEN store_result(logs, combined_result("text_", "TEXT_DOCUMENT", now), now)
               ELSE logs
    /\ op' = "process_text_file"
    /\ returned' = ReturnedResult([success |-> readable /\ success])
    /\ input' = PyNone
    /\ UNCHANGED <<configuration, others, log_file, processor>>

\* main.py lines 135-159
ProcessJsonFile(file, now) ==
    /\ processor
    /\ Len(logs) < MaxLogs
    /\ logs' = IF process_json(file).success
               THEN store_result(logs, combined_result("json_", "JSON_DOCUMENT", now), now)
               ELSE logs
    /\ op' = "process_json_file"
    /\ returned' = ReturnedResult([success |-> process_json(file).success])
    /\ input' = PyNone
    /\ UNCHANGED <<configuration, others, log_file, processor>>

StoreNext ==
    \/ \E with_processor \in BOOLEAN : StartProcess(with_processor)
    \/ Initialize
    \/ \E data \in StoreData, now \in Times : StoreResult(data, now)
    \/ \E io \in SaveOutcomes : SaveToFile(io)
    \/ \E conversation_id \in ConversationIds : GetConversationResults(conversation_id)
    \/ GetAllResults
    \/ \E pdf_ok \in BOOLEAN, classified \in BOOLEAN, now \in Times :
          ProcessPdfDocument(pdf_ok, classified, now)
    \/ \E readable \in BOOLEAN, success \in BOOLEAN, now \in Times :
          ProcessTextFile(readable, success, now)
    \/ \E file \in ProcessorJsonFiles, now \in Times : ProcessJsonFile(file, now)

StoreSpec == StoreInit /\ [][StoreNext]_vars

\* ------------------------------------------------------------------
\* JsonAgent.process_json on its own: input is what is at file_path
\* ------------------------------------------------------------------
JsonInit ==
    /\ llm_utils_available = TRUE
    /\ ollama_url = DefaultOllamaUrl
    /\ pc = "idle"
    /\ agent = "none"
    /\ input \in JsonFiles
    /\ request_text = PyNone
    /\ probe = "none"
    /\ llm_reply = NoReply
    /\ llm_result = LlmNone
    /\ result = PyNone
    /\ calls = <<>>
    /\ sent = <<>>
    /\ prompts = <<>>
    /\ StoreIdle

ProcessJson ==
    /\ op = "none"
    /\ op' = "process_json"
    /\ returned' = ReturnedResult(process_json(input))
    /\ UNCHANGED <<configuration, request, logs, log_file, processor>>

JsonNext == ProcessJson

JsonSpec == JsonInit /\ [][JsonNext]_vars

\* ------------------------------------------------------------------
\* ClassifierAgent.classify_with_rules from line 189 on, on its own: input is
\* the scores dict the loop of lines 179-187 has built.  A score is
\* 2 * (keyword occurrences) + 3 * (pattern matches), so 1 is never one.
\* ------------------------------------------------------------------
MaxScore == 4

ScoreValues ==
    {s \in 0..MaxScore :
        \E k \in 0..MaxScore, p \in 0..MaxScore : s = KeywordWeight * k + PatternWeight * p}

ScoreVectors == [1..Len(DocTypeOrder) -> ScoreValues]

ScoreInit ==
    /\ llm_utils_available = TRUE
    /\ ollama_url = DefaultOllamaUrl
    /\ pc = "idle"
    /\ agent = "none"
    /\ input \in ScoreVectors
    /\ request_text = PyNone
    /\ probe = "none"
    /\ llm_reply = NoReply
    /\ llm_result = LlmNone
    /\ result = PyNone
    /\ calls = <<>>
    /\ sent = <<>>
    /\ prompts = <<>>
    /\ StoreIdle

ClassifyWithRules ==
    /\ op = "none"
    /\ op' = "classify_with_rules"
    /\ returned' = ReturnedResult(rules_outcome(input))
    /\ UNCHANGED <<configuration, request, logs, log_file, processor>>

ScoreNext == ClassifyWithRules

ScoreSpec == ScoreInit /\ [][ScoreNext]_vars

\* ------------------------------------------------------------------
\* PDFAgent.process_pdf on its own: input is what is at file_path
\* ------------------------------------------------------------------
PdfInit ==
    /\ llm_utils_available = TRUE
    /\ ollama_url = DefaultOllamaUrl
    /\ pc = "idle"
    /\ agent = "none"
    /\ input \in PdfFiles
    /\ request_text = PyNone
    /\ probe = "none"
    /\ llm_reply = NoReply
    /\ llm_result = LlmNone
    /\ result = PyNone
    /\ calls = <<>>
    /\ sent = <<>>
    /\ prompts = <<>>
    /\ StoreIdle

ProcessPdf ==
    /\ op = "none"
    /\ op' = "process_pdf"
    /\ returned' = ReturnedResult(process_pdf(input))
    /\ UNCHANGED <<configuration, request, logs, log_file, processor>>

PdfNext == ProcessPdf

PdfSpec == PdfInit /\ [][PdfNext]_vars

\* ------------------------------------------------------------------
\* Properties
\* ------------------------------------------------------------------
\* the six taxonomy ids, as the specification lists them
FixedTaxonomy ==
    {"INVOICE", "QUOTE_REQUEST", "CONTRACT", "PURCHASE_ORDER", "RECEIPT", "GENERAL_INQUIRY"}

\* the intents the email prompt offers
FixedIntents == {"Quote Request", "Order", "General Inquiry", "Support", "Feedback", "Other"}

Returned(a) == pc = "returned" /\ agent = a

NonBlankText(v) == v.t = "str" /\ v.s \in SampleTexts

BlankText(v) == v.t = "str" /\ v.s \in BlankTexts

Called(c) == \E i \in DOMAIN calls : calls[i] = c

\* the reply is a JSON object
ParsedObject(reply) ==
    reply.transport = "ok" /\ reply.json.ok /\ reply.json.top = "dict"

\* The ways the model path fails: no answer (connection, timeout, HTTP
\* error), an empty response, a response that is not JSON or not an object,
\* document_type or confidence missing, document_type not a string or
\* confidence not a number, document_type outside the taxonomy.
ModelPathFails(reply) ==
    \/ reply.transport # "ok"
    \/ reply.response \in {"", "  \n"}
    \/ ~reply.json.ok
    \/ reply.json.top # "dict"
    \/ "document_type" \notin reply.json.has
    \/ "confidence" \notin reply.json.has
    \/ reply.json.val["document_type"].t # "str"
    \/ reply.json.val["confidence"].t # "num"
    \/ reply.json.val["document_type"].s \notin FixedTaxonomy

\* C1: for every non-blank text and every way the model path can fail,
\* classify_document returns success=true, method_used 'Rule-based' and
\* error_message null.  (Violated: a confidence of JSON true is taken as a
\* model result.)
C1_ModelFailureUsesRules ==
    (Returned("classifier") /\ NonBlankText(input) /\ ModelPathFails(llm_reply))
        => /\ result.success = TRUE
           /\ result.method_used = PyStr("Rule-based")
           /\ result.error_message = PyNone

\* C2: in every result classify_document returns, document_type is null or
\* one of the six taxonomy ids.
C2_DocumentTypeInTaxonomy ==
    Returned("classifier")
        => \/ result.document_type = PyNone
           \/ /\ result.document_type.t = "str"
              /\ result.document_type.s \in FixedTaxonomy

\* a model result and a rule result whose type was not the model's
C2_Witness ==
    /\ Returned("classifier")
    /\ ParsedObject(llm_reply)
    /\ llm_reply.json.val["document_type"] = PyStr("MEMO")
    /\ result.method_used = PyStr("Rule-based")
    /\ result.document_type.s \in FixedTaxonomy

\* C3: in every result classify_document returns, confidence is a number in
\* [0,1] (a boolean counted as 0 or 1).  (Violated: the model's confidence is
\* passed through as it came, 2.5 or -0.5 included.)
C3_ConfidenceInUnitInterval ==
    Returned("classifier")
        => \/ result.confidence.t = "bool"
           \/ /\ result.confidence.t = "num"
              /\ result.confidence.n >= 0
              /\ result.confidence.n <= 100

\* C4: in every result classify_document and process_email return,
\* method_used is non-null if and only if success is true.
C4_MethodUsedIffSuccess ==
    pc = "returned" => ((result.method_used # PyNone) <=> (result.success = TRUE))

\* the unexpected-exception exit: the rule scorer raised on a bytes text
C4_Witness ==
    /\ Returned("classifier")
    /\ input.t = "bytes"
    /\ Called("rules")
    /\ result.success = FALSE
    /\ result.error_message # PyNone
    /\ result.method_used = PyNone

\* C5: for every empty or whitespace-only text classify_document returns at
\* once: success=false, error_message set, document_type and method_used
\* null, extracted_info empty, and no probe, model call, rule scoring or
\* extraction was run.
C5_BlankTextRejected ==
    (agent = "classifier" /\ BlankText(input))
        => /\ pc = "returned"
           /\ result.success = FALSE
           /\ result.error_message # PyNone
           /\ result.document_type = PyNone
           /\ result.method_used = PyNone
           /\ DOMAIN result.extracted_info = {}
           /\ calls = <<>>

\* a whitespace-only text, with the model path available
C5_Witness ==
    /\ Returned("classifier")
    /\ input = PyStr(" \n\t ")
    /\ llm_utils_available
    /\ result.success = FALSE

\* the answer names a category, and it is not one of the fixed ones
UnknownCategory(reply, key, fixed) ==
    /\ ParsedObject(reply)
    /\ key \in reply.json.has
    /\ reply.json.val[key].t = "str"
    /\ reply.json.val[key].s \notin fixed

\* C6: when the model's answer names a category outside the fixed set, the
\* rule path produces the result, for the document classifier and for the
\* email classifier.  (Violated: the email classifier maps the unknown
\* intent to 'Other' and reports a model result.)
C6_UnknownCategoryRejected ==
    /\ (Returned("classifier") /\ NonBlankText(input)
                               /\ UnknownCategory(llm_reply, "document_type", FixedTaxonomy))
          => result.method_used = PyStr("Rule-based")
    /\ (Returned("email") /\ UnknownCategory(llm_reply, "intent", FixedIntents))
          => result.method_used = PyStr("Rule-based")

\* C7: within one request the generation service is called at most once, and
\* what follows the call is the rule-based classifier or the construction of
\* the result, never the probe or another call.
C7_AtMostOneGeneration ==
    \A i \in DOMAIN calls :
        calls[i] = "generate"
            => \A j \in DOMAIN calls : j > i => calls[j] \in {"rules", "extract"}

\* a call that timed out, followed by the rules
C7_Witness ==
    /\ Returned("classifier")
    /\ llm_reply.transport = "timeout"
    /\ calls = <<"probe", "generate", "rules", "extract">>

\* C8: both entry points return a result for every input; no exception
\* escapes to the caller.  (Violated: process_email calls strip() on a dict
\* body that is not a string, outside any try.)
C8_NoExceptionEscapes ==
    /\ pc # "raised"
    /\ (pc = "returned" /\ result.success = FALSE) => result.error_message # PyNone

\* C9: classify_with_rules returns a type of the taxonomy and a confidence
\* in [0, 0.9].
C9_RuleConfidenceCapped ==
    (agent = "classifier" /\ pc \in {"cd_extract", "returned"}
                          /\ result.method_used = PyStr("Rule-based"))
        => /\ result.document_type.t = "str"
           /\ result.document_type.s \in FixedTaxonomy
           /\ result.confidence.t = "num"
           /\ result.confidence.n >= 0
           /\ result.confidence.n <= 90

\* a text whose whole score is one type's: the ratio is 1 and the cap applies
C9_Witness ==
    /\ Returned("classifier")
    /\ input = PyStr("This Agreement is made this 1st day of January, 2024, between Party A and Party B.")
    /\ result.method_used = PyStr("Rule-based")
    /\ result.document_type = PyStr("CONTRACT")
    /\ result.confidence = PyNum(90)

InvoiceSample == "Invoice #INV-2023-001\nTotal Amount: $1250.75\nDue Date: 11/15/2024"

\* C10: for the sample invoice text and type INVOICE the extraction yields
\* invoice_number "inv-2023-001", amount "1250.75", due_date "11/15/2024".
C10_InvoiceSampleExtraction ==
    (Returned("classifier") /\ input = PyStr(InvoiceSample)
                            /\ result.document_type = PyStr("INVOICE"))
        => result.extracted_info =
              [invoice_number |-> PyStr("inv-2023-001"),
               amount |-> PyStr("1250.75"),
               due_date |-> PyStr("11/15/2024")]

\* the sample classified INVOICE by the model
C10_Witness ==
    /\ Returned("classifier")
    /\ input = PyStr(InvoiceSample)
    /\ result.method_used = PyStr("LLM")
    /\ result.document_type = PyStr("INVOICE")
    /\ DOMAIN result.extracted_info = {"invoice_number", "amount", "due_date"}

PurchaseOrderSample == "Purchase Order No. PO-45678 from Vendor Solutions for 100 keyboards."

\* the model integration is missing or the probe did not answer 200
NoReachableModel == ~llm_utils_available \/ probe \notin {"none", "200"}

\* C11: for the sample purchase order text with no reachable model,
\* classify_document returns PURCHASE_ORDER by the rules and the extracted
\* po_number is "po-45678".  (Violated: the pattern takes "no", the marker,
\* as the number.)
C11_PurchaseOrderSample ==
    (Returned("classifier") /\ input = PyStr(PurchaseOrderSample) /\ NoReachableModel)
        => /\ result.document_type = PyStr("PURCHASE_ORDER")
           /\ result.method_used = PyStr("Rule-based")
           /\ "po_number" \in DOMAIN result.extracted_info
           /\ result.extracted_info.po_number = PyStr("po-45678")

\* the intent rules in the order they are declared
IntentRules ==
    <<[intent |-> "Quote Request", keywords |-> {"quote", "quotation", "estimate", "pricing"}],
      [intent |-> "Order", keywords |-> {"order", "purchase", "procure", "buy"}],
      [intent |-> "Support",
       keywords |-> {"support", "help", "issue", "problem", "bug", "trouble"}],
      [intent |-> "Feedback", keywords |-> {"feedback", "suggestion", "review", "complaint"}]>>

RuleMatches(i, lowered) == \E k \in IntentRules[i].keywords : str_contains(lowered, k)

FirstDeclaredIntent(lowered) ==
    IF \A i \in DOMAIN IntentRules : ~RuleMatches(i, lowered) THEN "General Inquiry"
    ELSE IntentRules[CHOOSE i \in DOMAIN IntentRules :
                        /\ RuleMatches(i, lowered)
                        /\ \A j \in 1..(i - 1) : ~RuleMatches(j, lowered)].intent

QuoteAndUrgent(lowered) ==
    /\ str_contains(lowered, "quote")
    /\ str_contains(lowered, "urgent") \/ str_contains(lowered, "asap")

\* C12: the rule-based email intent is that of the first declared rule
\* (Quote Request, Order, Support, Feedback) one of whose keywords occurs in
\* the lower-cased text, 'General Inquiry' when there is none; a text with
\* "quote" and "urgent" or "asap" is a Quote Request whatever its urgency.
C12_FirstDeclaredIntentWins ==
    (Returned("email") /\ result.method_used = PyStr("Rule-based"))
        => /\ result.intent = PyStr(FirstDeclaredIntent(str_lower(request_text.s)))
           /\ QuoteAndUrgent(str_lower(request_text.s))
                 => result.intent = PyStr("Quote Request")

\* a text that holds keywords of three intent rules and an urgency keyword
C12_Witness ==
    /\ Returned("email")
    /\ request_text = PyStr("Need a quote for my order asap, support is not helping.")
    /\ result.method_used = PyStr("Rule-based")
    /\ result.intent = PyStr("Quote Request")
    /\ result.urgency = PyStr("High")

\* C17: the probe and the generation request of a classification both go to
\* the server given to the constructor.  (Violated: call_ollama_llm posts to
\* localhost whatever the agent was given.)
C17_RequestsGoToConfiguredUrl ==
    \A i \in DOMAIN sent :
        sent[i] \in {ollama_url \o "/api/tags", ollama_url \o "/api/generate"}

\* transport succeeded, the response parsed as an object, document_type and
\* confidence are present, a string and a number, and the type is in the
\* taxonomy
ModelAnswerAcceptable ==
    /\ llm_utils_available
    /\ probe = "200"
    /\ ParsedObject(llm_reply)
    /\ "document_type" \in llm_reply.json.has
    /\ "confidence" \in llm_reply.json.has
    /\ llm_reply.json.val["document_type"].t = "str"
    /\ llm_reply.json.val["confidence"].t = "num"
    /\ llm_reply.json.val["document_type"].s \in FixedTaxonomy

\* C18: classify_document returns the model's answer (method_used 'LLM',
\* with the model's document_type and confidence) if and only if the probe
\* and the transport succeeded, the response parsed as an object,
\* document_type and confidence are present with the right types and the
\* type is in the taxonomy.  (Violated: an answer without 'reasoning' is
\* refused, and a confidence of JSON true is accepted.)
C18_ModelAcceptedIff ==
    (Returned("classifier") /\ NonBlankText(input))
        => /\ (result.method_used = PyStr("LLM")) <=> ModelAnswerAcceptable
           /\ result.method_used = PyStr("LLM")
                 => /\ result.document_type = llm_reply.json.val["document_type"]
                    /\ result.confidence = llm_reply.json.val["confidence"]

\* C19: when the model integration is missing or the probe fails,
\* classify_document makes no generation call and goes to the rules; a
\* generation call is always preceded by the probe.
C19_ModelAttemptSkipped ==
    agent = "classifier"
        => /\ NoReachableModel => (~Called("generate") /\ pc # "cd_llm")
           /\ (NoReachableModel /\ pc = "returned" /\ NonBlankText(input))
                 => /\ calls \in {<<"rules", "extract">>, <<"probe", "rules", "extract">>}
                    /\ result.method_used = PyStr("Rule-based")
           /\ \A i \in DOMAIN calls :
                 calls[i] = "generate" => \E j \in 1..(i - 1) : calls[j] = "probe"

\* the probe timed out and the rules classified the text
C19_Witness ==
    /\ Returned("classifier")
    /\ llm_utils_available
    /\ probe = "timeout"
    /\ calls = <<"probe", "rules", "extract">>
    /\ result.method_used = PyStr("Rule-based")

AllZero(scores) == \A i \in DOMAIN scores : scores[i] = 0

\* C20: a text for which every taxonomy entry scores zero is classified
\* GENERAL_INQUIRY with confidence 0.3 by the rules, and the rules give every
\* text a type of the taxonomy.
C20_DefaultTypeWhenNothingScores ==
    (agent = "classifier" /\ pc \in {"cd_extract", "returned"} /\ NonBlankText(input)
                          /\ Called("rules"))
        => /\ result.success = TRUE
           /\ result.document_type.t = "str"
           /\ result.document_type.s \in FixedTaxonomy
           /\ AllZero(RuleResults[textIndex(input.s)].scores)
                 => /\ result.document_type = PyStr("GENERAL_INQUIRY")
                    /\ result.confidence = PyNum(30)

\* "Just a casual hello." holds no keyword and matches no pattern
C20_Witness ==
    /\ Returned("classifier")
    /\ input = PyStr("Just a casual hello.")
    /\ AllZero(RuleResults[textIndex(input.s)].scores)
    /\ result.method_used = PyStr("Rule-based")
    /\ result.document_type = PyStr("GENERAL_INQUIRY")

IsPrefix(a, b) == Len(a) <= Len(b) /\ SubSeq(b, 1, Len(a)) = a

\* C13: within a process, whatever SharedMemory operation runs, the records
\* stored before it are still there after it, unchanged and in their order:
\* logs only grows at its end.  (Violated: initialize replaces logs by what
\* the file holds, or by nothing when the file does not parse.)
C13_StoreIsAppendOnly == [][op' # "start" => IsPrefix(logs, logs')]_vars

AppendingOps ==
    {"store_result", "process_pdf_document", "process_text_file", "process_json_file"}

\* C14: when an operation has appended a record, the file holds the JSON
\* array of the records in memory.  (Violated: store_result appends to logs
\* and never writes the file.)
C14_AppendRewritesFile ==
    [][(op' \in AppendingOps /\ logs' # logs)
          => log_file' = JsonArrayFile(json_array(logs', 1))]_vars

ProcessorOps ==
    {"process_pdf_document", "process_text_file", "process_json_file", "get_all_results"}

\* C15: when a process that runs a DocumentProcessor appends or queries,
\* the records of the array on disk are in memory.  (Violated: nothing in
\* DocumentProcessor calls initialize; a new process starts from logs = [].)
C15_ReloadedAtProcessStart ==
    (processor /\ op \in ProcessorOps /\ log_file.valid)
        => IsPrefix(log_file.array, logs)

JsonStatuses == {"processed", "file_not_found", "invalid_json", "processing_failed"}

\* C16: process_json returns one of the four statuses; success is true
\* exactly when the status is 'processed', which is exactly when the file
\* exists and parses into a JSON object; error_message is null exactly when
\* success is true.  (Violated: an object whose amount is an integer too
\* large for float() ends 'processing_failed'.)
C16_JsonStatus ==
    op = "process_json"
        => /\ returned.result.status \in JsonStatuses
           /\ returned.result.success <=> returned.result.status = "processed"
           /\ returned.result.status = "processed"
                 <=> (input.kind = "json" /\ input.top = "dict")
           /\ returned.result.error_message = PyNone <=> returned.result.success

\* ------------------------------------------------------------------
\* classify_with_rules on every tuple of scores (ScoreSpec)
\* ------------------------------------------------------------------
RulesApplied == op = "classify_with_rules"

SomePositive(scores) == \E i \in 1..Len(scores) : scores[i] > 0

\* the taxonomy in the order the specification declares it
FixedOrder ==
    <<"INVOICE", "QUOTE_REQUEST", "CONTRACT", "PURCHASE_ORDER", "RECEIPT", "GENERAL_INQUIRY">>

\* the position of the returned type in that order, 0 when it is not in it
ReturnedTypeIndex ==
    IF \E i \in 1..Len(FixedOrder) : returned.result.document_type = PyStr(FixedOrder[i])
    THEN CHOOSE i \in 1..Len(FixedOrder) :
            returned.result.document_type = PyStr(FixedOrder[i])
    ELSE 0

\* C21: when some score is positive, the returned type holds the maximum
\* score, and no type declared before it in the taxonomy holds that score too.
C21_MaxScoreFirstDeclaredWins ==
    (RulesApplied /\ SomePositive(input)) =>
        /\ ReturnedTypeIndex \in 1..Len(FixedOrder)
        /\ \A j \in 1..Len(input) : input[j] <= input[ReturnedTypeIndex]
        /\ \A j \in 1..(ReturnedTypeIndex - 1) : input[j] < input[ReturnedTypeIndex]

\* QUOTE_REQUEST and PURCHASE_ORDER share the maximum, and QUOTE_REQUEST is returned
C21_Witness ==
    /\ RulesApplied
    /\ input[2] = 3 /\ input[4] = 3
    /\ \A j \in 1..Len(input) : input[j] <= 3
    /\ input[1] < 3
    /\ returned.result.document_type = PyStr("QUOTE_REQUEST")

\* the confidence of the returned result, in hundredths
ReturnedConfidence == returned.result.confidence.n

\* C22: when some score is positive, the confidence is exactly
\* min(0.9, winning score / total score).
C22_ConfidenceIsCappedRatio ==
    (RulesApplied /\ SomePositive(input)) =>
        LET win == maxScore(input)
            total == sumScores(input, 1)
        IN IF 10 * win >= 9 * total
           THEN ReturnedConfidence = 90
           ELSE ReturnedConfidence * total = 100 * win

\* C22, amended: the confidence is min(0.9, winning score / total score)
\* rounded to two decimals: a whole number of hundredths, at most half a
\* hundredth away from the capped ratio.
C22_ConfidenceIsRoundedCappedRatio ==
    (RulesApplied /\ SomePositive(input)) =>
        LET win == maxScore(input)
            total == sumScores(input, 1)
            c == ReturnedConfidence
        IN /\ c \in 0..90
           /\ IF 10 * win >= 9 * total
              THEN c = 90
              ELSE /\ 2 * (c * total - 100 * win) <= total
                   /\ 2 * (100 * win - c * total) <= total

\* scores 3, 2, 2: the ratio 3/7 is returned as 0.43
C22_Witness ==
    /\ RulesApplied
    /\ input = <<3, 2, 2, 0, 0, 0>>
    /\ ReturnedConfidence = 43

\* ------------------------------------------------------------------
\* classify_document: the extracted information (Spec)
\* ------------------------------------------------------------------
InvoiceKeys == {"invoice_number", "amount", "due_date"}

PurchaseOrderKeys == {"po_number", "vendor"}

ClassifiedSuccessfully ==
    /\ agent = "classifier"
    /\ pc = "returned"
    /\ result.success = TRUE

\* the keys extracted_info must have for the final document_type
KeysForFinalType ==
    IF result.document_type = PyStr("INVOICE") THEN InvoiceKeys
    ELSE IF result.document_type = PyStr("PURCHASE_ORDER") THEN PurchaseOrderKeys
    ELSE {}

C24_PromptIsBounded ==
    \A i \in DOMAIN prompts :
        /\ Len(prompts[i].s) <= 2000
        /\ prompts[i].s = SubSeq(request_text.s, 1, Len(prompts[i].s))

\* ------------------------------------------------------------------
\* The result store: rejected values and the save/reload round trip (StoreSpec)
\* ------------------------------------------------------------------
\* C25: store_result called with a value that is not a mapping returns
\* normally and leaves the store as it was: the same records, in number and
\* content, in memory, and the same file.
C25_NonMappingRejected ==
    [][(op' = "store_result" /\ input'.t # "dict")
          => /\ logs' = logs
             /\ log_file' = log_file
             /\ returned' = NoReturn]_vars

\* a string was handed to a store that held a record, and the record is there
C25_Witness ==
    /\ op = "store_result"
    /\ input = PyStr("this is a string, not a dict")
    /\ logs = <<PyDict(PyStr("conv_001"), "PDF")>>

\* initialize as the claim describes it, on the store and the file before it
ReloadedAsClaimed ==
    logs' = IF ~log_file.exists THEN logs
            ELSE IF log_file.valid THEN log_file.array
            ELSE <<>>

SaveSucceeded == op' = "_save_to_file" /\ returned' = Logged("info")

ReadBack(entry) ==
    IF entry.conversation_id.t = "tuple"
    THEN [entry EXCEPT !.conversation_id = PyList]
    ELSE entry

PdfReturned == op = "process_pdf"

\* C27: whenever process_pdf returns success=false, error_message is a
\* string that describes the failure, also when validate_pdf_file refused
\* the file.
C27_PdfFailureHasMessage ==
    (PdfReturned /\ ~returned.result.success) =>
        /\ returned.result.error_message.t = "str"
        /\ returned.result.error_message.s # ""

\* C30: whenever process_pdf returns success=true, extracted_text is a
\* string with something other than white space in it.
C30_PdfSuccessHasText ==
    (PdfReturned /\ returned.result.success) =>
        /\ returned.result.extracted_text.t = "str"
        /\ str_strip(returned.result.extracted_text.s) # ""

FileOps == {"process_pdf_document", "process_text_file", "process_json_file"}

\* C28: a step of process_pdf_document, process_text_file or process_json_file
\* appends one record to the store when the result it returns has
\* success = true, the record being the last one and the earlier ones kept,
\* and leaves the store as it was when the result has success = false; no
\* step appends more than one record.
C28_StoredIffSucceeded ==
    [][op' \in FileOps =>
          IF returned'.result.success
          THEN /\ Len(logs') = Len(logs) + 1
               /\ SubSeq(logs', 1, Len(logs)) = logs
          ELSE logs' = logs]_vars

C28_Witness ==
    /\ op = "process_pdf_document"
    /\ returned.result.success
    /\ Len(logs) >= 1
    /\ logs[Len(logs)].t = "dict"

HighKeywords == {"urgent", "asap", "immediately", "critical", "down", "halted"}
CriticalKeywords == {"blocker", "outage"}
Mentions(lowered, words) == \E w \in words : str_contains(lowered, w)

\* C29: the rule-based email classification reports urgency 'High' when the
\* lower-cased text contains one of urgent, asap, immediately, critical,
\* down, halted, also when it contains blocker or outage; 'Critical' exactly
\* when it contains blocker or outage and none of the High keywords;
\* 'Normal' otherwise.  The urgency is this function of the text, whatever
\* the intent.
C29_UrgencyByKeywords ==
    (Returned("email") /\ result.method_used = PyStr("Rule-based"))
        => /\ Mentions(str_lower(request_text.s), HighKeywords)
                 => result.urgency = PyStr("High")
           /\ result.urgency = PyStr("Critical")
                 <=> /\ Mentions(str_lower(request_text.s), CriticalKeywords)
                     /\ ~Mentions(str_lower(request_text.s), HighKeywords)
           /\ (/\ ~Mentions(str_lower(request_text.s), HighKeywords)
               /\ ~Mentions(str_lower(request_text.s), CriticalKeywords))
                 => result.urgency = PyStr("Normal")

\* a text in capitals with High keywords and a Critical keyword
C29_Witness ==
    /\ Returned("email")
    /\ request_text = PyStr("URGENT: outage in billing, all shipments halted.")
    /\ result.method_used = PyStr("Rule-based")
    /\ result.urgency = PyStr("High")
    /\ result.intent = PyStr("General Inquiry")

====
